---- MODULE Spec2Model ----
(***************************************************************************)
(* Falling-sand thermal cycle: Grid, Particle, zone components, Lift and   *)
(* the Simulation tick of meowscellaneous/particles.                       *)
(*                                                                         *)
(* The grid is kept sparse: a function whose domain is the set of occupied *)
(* cells <<x, y>>; a cell outside the domain holds None.  The value of a   *)
(* cell is a particle identity, an index into the sequence `particles' of  *)
(* every Particle object constructed so far.                               *)
(***************************************************************************)
EXTENDS Integers, Sequences, FiniteSets, TLC

\* ---------------------------------------------------------------- bounds
\* Largest value of Simulation.max_spawn that is explored (the constructor
\* sets 1; the field is drawn from 1..MaxSpawn so that particles interact).
MaxSpawn == 3
\* Simulation.update() is not taken once frame_counter has reached this.
MaxFrames == 730
\* Grid of the unit-level specification SpecGrid (coordinates -1..size).
TestW == 3
TestH == 2
\* Particle objects constructed in SpecGrid.
MaxParticles == 2
\* Grid of the free-fall specification SpecFall.
FallW == 10
FallH == 10
\* SpecRule: cells this far around a zone edge are probed, and the caller
\* makes this many update_particle calls.
ProbeMargin == 1
MaxRuleCalls == 2
ZoneTicks == 1
\* SpecSeparator: update_physics() is called this many times.
SeparatorTicks == 2
\* SpecLift: update_physics() is called this many times.
LiftTicks == 380
QueueTicks == 4

\* ---------------------------------------------------------- main.py
SCREEN_WIDTH == 800
SCREEN_HEIGHT == 800
CELL_SIZE == 8

Max(a, b) == IF a >= b THEN a ELSE b
Min(a, b) == IF a <= b THEN a ELSE b

\* ------------------------------------------------------- Simulation.__init__
grid_width == SCREEN_WIDTH \div CELL_SIZE
grid_height == SCREEN_HEIGHT \div CELL_SIZE
spawn_delay == 3
hotbin_cycle_duration == 300
coldbin_cycle_duration == 300

\* ------------------------------------------------------- Particle.__init__
max_temperature == 500
thermal_loss_interval == 10

\* ------------------------------------------------------- Receiver.__init__
receiver_width == 10
receiver_height == 1
receiver_x == (grid_width - receiver_width) \div 2
receiver_y == 22
heating_rate == 500
heating_interval == 1

\* ------------------------------------------------------ Separator.__init__
separator_width == receiver_width
separator_height == 3
separator_thickness == 1
separator_x == Max(0, receiver_x - (separator_width - receiver_width) \div 2)
separator_y == receiver_y - 10
left_wall_x == separator_x
right_wall_x == separator_x + separator_width - separator_thickness
bottom_y == separator_y + separator_height - separator_thickness
distribution_start_x == separator_x + separator_thickness
distribution_end_x == separator_x + separator_width - separator_thickness
distribution_width == distribution_end_x - distribution_start_x

\* --------------------------------------------------------- HotBin.__init__
hotbin_width == receiver_width + 6
hotbin_height == 8
hotbin_thickness == 1
hotbin_x == Max(0, receiver_x - (hotbin_width - receiver_width) \div 2)
hotbin_y == receiver_y + 8
hotbin_opening_width == 3
hotbin_opening_start_x == hotbin_x + (hotbin_width - hotbin_opening_width) \div 2
hotbin_opening_end_x == hotbin_opening_start_x + hotbin_opening_width
hotbin_floor_y == hotbin_y + hotbin_height - hotbin_thickness

\* ------------------------------------------------------------ PSG.__init__
psg_width == hotbin_width
psg_height == 5
psg_x == hotbin_x + (hotbin_width - psg_width) \div 2
psg_y == hotbin_y + 8 + 6
cooling_rate == 20
cooling_interval == 1
slow_factor == 5

\* -------------------------------------------------------- ColdBin.__init__
\* coldbin.py is not among the sources; ColdBin(psg.x, psg.y, psg.width) is
\* taken to be built like HotBin(receiver.x, receiver.y, receiver.width).
coldbin_width == psg_width + 6
coldbin_height == 8
coldbin_thickness == 1
coldbin_x == Max(0, psg_x - (coldbin_width - psg_width) \div 2)
coldbin_y == psg_y + 8
coldbin_opening_width == 3
coldbin_opening_start_x == coldbin_x + (coldbin_width - coldbin_opening_width) \div 2
coldbin_opening_end_x == coldbin_opening_start_x + coldbin_opening_width
\* ColdBin.get_bin_bounds()
coldbin_left == coldbin_x
coldbin_right == coldbin_x + coldbin_width
coldbin_inner_bottom == coldbin_y + coldbin_height - coldbin_thickness

\* ----------------------------------------------------------- Lift.__init__
lift_receiver_y == separator_y + separator_height
shaft_width == 5
cb_shaft_x == coldbin_opening_start_x
cb_shaft_y == coldbin_inner_bottom
cb_shaft_height == 5
cb_hz_shaft_x == cb_shaft_x
cb_hz_shaft_y == cb_shaft_y + cb_shaft_height
cb_hz_shaft_length == coldbin_right - coldbin_left
main_shaft_x == cb_hz_shaft_x + cb_hz_shaft_length
main_shaft_y == lift_receiver_y - 15
main_shaft_height == cb_hz_shaft_y + shaft_width - main_shaft_y
rcv_hz_shaft_x == cb_shaft_x
rcv_hz_shaft_y == main_shaft_y
rcv_hz_shaft_length == main_shaft_x - cb_shaft_x
rcv_vt_shaft_x == rcv_hz_shaft_x
rcv_vt_shaft_y == rcv_hz_shaft_y + shaft_width
rcv_vt_shaft_height == 5
\* lift_speed = 0.3, kept as the fraction 3/10
lift_speed_num == 3
lift_speed_den == 10
\* max(1, int(1 / self.lift_speed))
lift_period == Max(1, lift_speed_den \div lift_speed_num)

\* ------------------------------------------------------------------ state
VARIABLES
    width,              \* Grid.width
    height,             \* Grid.height
    grid,               \* Grid.grid: occupied cell <<x, y>> |-> particle identity
    psg_speed_counter,  \* Grid.psg_speed_counter: particle identity |-> frames
    particles,          \* every Particle constructed: identity |-> its fields
    hotbin_is_open,     \* HotBin.is_open
    coldbin_is_open,    \* ColdBin.is_open
    lift,               \* Lift: frame_counter, particles_entered, particles_exited
    psg,                \* PSG: frame_counter, total_heat_extracted
    receiver,           \* Receiver: frame_counter, total_heat_added
    sim,                \* Simulation: spawn and timer fields, running
    zones,              \* TRUE when update_particle is handed the zone components
    pc,                 \* position inside Simulation.update / the caller
    cursor,             \* cell the gravity sweep examined last
    queue,              \* particles_to_separate still to be processed
    sweeps,             \* gravity passes the caller has completed
    call,               \* the last Grid call: its arguments and what it returned
    relocated           \* history: the particles the lift or the separator update
                        \* has moved during the current update_physics()

vars == <<width, height, grid, psg_speed_counter, particles, hotbin_is_open,
          coldbin_is_open, lift, psg, receiver, sim, zones, pc, cursor, queue,
          sweeps, call, relocated>>

gridVars == <<grid, psg_speed_counter, particles>>
zoneVars == <<hotbin_is_open, coldbin_is_open, lift, psg, receiver>>

None == 0

\* ------------------------------------------------------------------- Grid
is_valid_position(x, y) == 0 <= x /\ x < width /\ 0 <= y /\ y < height

\* get_particle: the identity in the cell, None outside the grid or when empty
get_particle(g, x, y) ==
    IF is_valid_position(x, y) /\ <<x, y>> \in DOMAIN g THEN g[<<x, y>>] ELSE None

is_empty(g, x, y) ==
    IF ~is_valid_position(x, y) THEN FALSE ELSE <<x, y>> \notin DOMAIN g

\* self.grid[y][x] = value
SetCell(g, x, y, p) == [c \in DOMAIN g \cup {<<x, y>>} |-> IF c = <<x, y>> THEN p ELSE g[c]]
\* self.grid[y][x] = None
ClearCell(g, x, y) == [c \in DOMAIN g \ {<<x, y>>} |-> g[c]]

\* move_to that stores the column only
move_to_column_only(ps, p, x, y) == [ps EXCEPT ![p].x = x]

\* Particle.move_to
move_to(ps, p, x, y) == [ps EXCEPT ![p].x = x, ![p].y = y]

\* Particle(x, y)
NewParticle(x, y) ==
    [x |-> x, y |-> y, temperature |-> 0, last_thermal_loss_frame |-> 0,
     just_entered_lift |-> FALSE]

\* A world is the part of the state the Grid methods work on.
World(g, ps, ctr) == [grid |-> g, particles |-> ps, psg_speed_counter |-> ctr]
Here == World(grid, particles, psg_speed_counter)

\* place_particle(particle, x, y): <<returned value, world afterwards>>
place_particle(w, p, x, y) ==
    IF is_valid_position(x, y)
    THEN <<TRUE, [w EXCEPT !.grid = SetCell(w.grid, x, y, p),
                           !.particles = move_to(w.particles, p, x, y)]>>
    ELSE <<FALSE, w>>

\* a remove_particle that leaves the slow-zone counter map alone
remove_particle_keeps_counter(w, x, y) ==
    IF is_valid_position(x, y)
    THEN LET p == get_particle(w.grid, x, y)
         IN <<p, [w EXCEPT !.grid = ClearCell(w.grid, x, y)]>>
    ELSE <<None, w>>

\* remove_particle(x, y): <<returned particle or None, world afterwards>>
remove_particle(w, x, y) ==
    IF is_valid_position(x, y)
    THEN LET p == get_particle(w.grid, x, y)
         IN <<p, [w EXCEPT !.grid = ClearCell(w.grid, x, y),
                           !.psg_speed_counter =
                               [q \in DOMAIN w.psg_speed_counter \ {p} |->
                                   w.psg_speed_counter[q]]]>>
    ELSE <<None, w>>

\* move_particle that leaves the source cell as it was
move_particle_keeps_source(w, from_x, from_y, to_x, to_y) ==
    IF ~is_valid_position(from_x, from_y) \/ ~is_valid_position(to_x, to_y)
    THEN <<FALSE, w>>
    ELSE IF <<from_x, from_y>> \notin DOMAIN w.grid \/ <<to_x, to_y>> \in DOMAIN w.grid
    THEN <<FALSE, w>>
    ELSE LET p == w.grid[<<from_x, from_y>>]
         IN <<TRUE, [w EXCEPT !.grid = SetCell(w.grid, to_x, to_y, p),
                              !.particles = move_to(w.particles, p, to_x, to_y)]>>

\* move_particle that vacates the source cell and never fills the destination
move_particle_drops(w, from_x, from_y, to_x, to_y) ==
    IF ~is_valid_position(from_x, from_y) \/ ~is_valid_position(to_x, to_y)
    THEN <<FALSE, w>>
    ELSE IF <<from_x, from_y>> \notin DOMAIN w.grid \/ <<to_x, to_y>> \in DOMAIN w.grid
    THEN <<FALSE, w>>
    ELSE LET p == w.grid[<<from_x, from_y>>]
         IN <<TRUE, [w EXCEPT !.grid = ClearCell(w.grid, from_x, from_y),
                              !.particles = move_to(w.particles, p, to_x, to_y)]>>

\* move_particle that does not test the destination cell
move_particle_no_dest_test(w, from_x, from_y, to_x, to_y) ==
    IF ~is_valid_position(from_x, from_y) \/ ~is_valid_position(to_x, to_y)
    THEN <<FALSE, w>>
    ELSE IF <<from_x, from_y>> \notin DOMAIN w.grid
    THEN <<FALSE, w>>
    ELSE LET p == w.grid[<<from_x, from_y>>]
         IN <<TRUE, [w EXCEPT !.grid = SetCell(ClearCell(w.grid, from_x, from_y), to_x, to_y, p),
                              !.particles = move_to(w.particles, p, to_x, to_y)]>>

\* move_particle that tests the destination only when it differs from the
\* source, and writes the destination before it clears the source
move_particle_set_then_clear(w, from_x, from_y, to_x, to_y) ==
    IF ~is_valid_position(from_x, from_y) \/ ~is_valid_position(to_x, to_y)
    THEN <<FALSE, w>>
    ELSE IF \/ <<from_x, from_y>> \notin DOMAIN w.grid
            \/ (<<to_x, to_y>> \in DOMAIN w.grid /\ <<to_x, to_y>> # <<from_x, from_y>>)
    THEN <<FALSE, w>>
    ELSE LET p == w.grid[<<from_x, from_y>>]
         IN <<TRUE, [w EXCEPT !.grid = ClearCell(SetCell(w.grid, to_x, to_y, p), from_x, from_y),
                              !.particles = move_to(w.particles, p, to_x, to_y)]>>

\* move_particle(from_x, from_y, to_x, to_y): <<returned value, world afterwards>>
move_particle(w, from_x, from_y, to_x, to_y) ==
    IF ~is_valid_position(from_x, from_y) \/ ~is_valid_position(to_x, to_y)
    THEN <<FALSE, w>>
    ELSE IF <<from_x, from_y>> \notin DOMAIN w.grid \/ <<to_x, to_y>> \in DOMAIN w.grid
    THEN <<FALSE, w>>
    ELSE LET p == w.grid[<<from_x, from_y>>]
         IN <<TRUE, [w EXCEPT !.grid = SetCell(ClearCell(w.grid, from_x, from_y), to_x, to_y, p),
                              !.particles = move_to(w.particles, p, to_x, to_y)]>>

\* ----------------------------------------------------------------- HotBin
\* a floor that is_open does not remove
hotbin_is_wall_floor_stays(x, y) ==
    \/ /\ x >= hotbin_x /\ x < hotbin_x + hotbin_thickness
       /\ y >= hotbin_y /\ y < hotbin_y + hotbin_height
    \/ /\ x >= hotbin_x + hotbin_width - hotbin_thickness /\ x < hotbin_x + hotbin_width
       /\ y >= hotbin_y /\ y < hotbin_y + hotbin_height
    \/ /\ x >= hotbin_x /\ x < hotbin_x + hotbin_width
       /\ y >= hotbin_y + hotbin_height - hotbin_thickness /\ y < hotbin_y + hotbin_height

hotbin_is_wall(x, y) ==
    IF x >= hotbin_x /\ x < hotbin_x + hotbin_thickness
       /\ y >= hotbin_y /\ y < hotbin_y + hotbin_height
    THEN TRUE
    ELSE IF x >= hotbin_x + hotbin_width - hotbin_thickness /\ x < hotbin_x + hotbin_width
            /\ y >= hotbin_y /\ y < hotbin_y + hotbin_height
    THEN TRUE
    ELSE IF x >= hotbin_x /\ x < hotbin_x + hotbin_width
            /\ y >= hotbin_y + hotbin_height - hotbin_thickness /\ y < hotbin_y + hotbin_height
    THEN ~(hotbin_is_open /\ x >= hotbin_opening_start_x /\ x < hotbin_opening_end_x)
    ELSE FALSE

hotbin_is_inside(x, y) ==
    /\ x > hotbin_x + hotbin_thickness - 1
    /\ x < hotbin_x + hotbin_width - hotbin_thickness
    /\ y >= hotbin_y
    /\ y < hotbin_y + hotbin_height - hotbin_thickness

\* ---------------------------------------------------------------- ColdBin
coldbin_is_wall(x, y) ==
    IF x >= coldbin_x /\ x < coldbin_x + coldbin_thickness
       /\ y >= coldbin_y /\ y < coldbin_y + coldbin_height
    THEN TRUE
    ELSE IF x >= coldbin_x + coldbin_width - coldbin_thickness /\ x < coldbin_x + coldbin_width
            /\ y >= coldbin_y /\ y < coldbin_y + coldbin_height
    THEN TRUE
    ELSE IF x >= coldbin_x /\ x < coldbin_x + coldbin_width
            /\ y >= coldbin_y + coldbin_height - coldbin_thickness /\ y < coldbin_y + coldbin_height
    THEN ~(coldbin_is_open /\ x >= coldbin_opening_start_x /\ x < coldbin_opening_end_x)
    ELSE FALSE

coldbin_is_inside(x, y) ==
    /\ x > coldbin_x + coldbin_thickness - 1
    /\ x < coldbin_x + coldbin_width - coldbin_thickness
    /\ y >= coldbin_y
    /\ y < coldbin_y + coldbin_height - coldbin_thickness

\* ------------------------------------------------------- Receiver and PSG
receiver_is_inside(x, y) ==
    /\ receiver_x <= x /\ x < receiver_x + receiver_width
    /\ receiver_y <= y /\ y < receiver_y + receiver_height

psg_is_inside(x, y) ==
    /\ psg_x <= x /\ x < psg_x + psg_width
    /\ psg_y <= y /\ y < psg_y + psg_height

should_particle_move_slow(x, y) == psg_is_inside(x, y)

\* -------------------------------------------------------------- Separator
separator_is_wall(x, y) ==
    \/ /\ x >= left_wall_x /\ x < left_wall_x + separator_thickness
       /\ y >= separator_y /\ y < separator_y + separator_height
    \/ /\ x >= right_wall_x /\ x < right_wall_x + separator_thickness
       /\ y >= separator_y /\ y < separator_y + separator_height
    \/ /\ x >= separator_x /\ x < separator_x + separator_width
       /\ y >= bottom_y /\ y < bottom_y + separator_thickness

separator_is_inside(x, y) ==
    /\ x >= distribution_start_x
    /\ x < distribution_end_x
    /\ y >= separator_y
    /\ y < bottom_y

can_enter_separator(x, y) ==
    /\ y = separator_y - 1
    /\ x >= distribution_start_x
    /\ x < distribution_end_x

\* ------------------------------------------------------- Lift: predicates
is_inside_cb_vertical(x, y) ==
    /\ cb_shaft_x <= x /\ x < cb_shaft_x + shaft_width
    /\ cb_shaft_y <= y /\ y < cb_shaft_y + cb_shaft_height

is_inside_cb_horizontal(x, y) ==
    /\ cb_hz_shaft_x <= x /\ x < cb_hz_shaft_x + cb_hz_shaft_length
    /\ cb_hz_shaft_y <= y /\ y < cb_hz_shaft_y + shaft_width

is_inside_main_vertical(x, y) ==
    /\ main_shaft_x <= x /\ x < main_shaft_x + shaft_width
    /\ main_shaft_y <= y /\ y < main_shaft_y + main_shaft_height

is_inside_rcv_horizontal(x, y) ==
    /\ rcv_hz_shaft_x <= x /\ x < rcv_hz_shaft_x + rcv_hz_shaft_length
    /\ rcv_hz_shaft_y <= y /\ y < rcv_hz_shaft_y + shaft_width

is_inside_rcv_vertical(x, y) ==
    /\ rcv_vt_shaft_x <= x /\ x < rcv_vt_shaft_x + shaft_width
    /\ rcv_vt_shaft_y <= y /\ y < rcv_vt_shaft_y + rcv_vt_shaft_height

is_inside_lift(x, y) ==
    \/ is_inside_cb_vertical(x, y)
    \/ is_inside_cb_horizontal(x, y)
    \/ is_inside_main_vertical(x, y)
    \/ is_inside_rcv_horizontal(x, y)
    \/ is_inside_rcv_vertical(x, y)

\* get_entry_position()
entry_x == cb_shaft_x
entry_y == cb_shaft_y

\* --------------------------------------------------- Grid: the gravity rule
\* a PSG test that counts the checks but lets the particle move on every one
should_particle_move_slowly_every_check(w, x, y, hasPsg) ==
    LET p == get_particle(w.grid, x, y)
        ctr == w.psg_speed_counter
    IN IF hasPsg /\ should_particle_move_slow(x, y) /\ p # None
       THEN <<TRUE, [q \in DOMAIN ctr \cup {p} |->
                       IF q = p THEN (IF p \in DOMAIN ctr THEN ctr[p] ELSE 0) + 1 ELSE ctr[q]]>>
       ELSE IF p # None /\ p \in DOMAIN ctr
            THEN <<TRUE, [q \in DOMAIN ctr \ {p} |-> ctr[q]]>>
            ELSE <<TRUE, ctr>>

\* should_particle_move_slowly(x, y, psg): <<returned value, counter map afterwards>>
should_particle_move_slowly(w, x, y, hasPsg) ==
    LET p == get_particle(w.grid, x, y)
        ctr == w.psg_speed_counter
    IN IF hasPsg /\ should_particle_move_slow(x, y)
       THEN IF p # None
            THEN LET n == (IF p \in DOMAIN ctr THEN ctr[p] ELSE 0) + 1
                 IN <<n % slow_factor = 0,
                      [q \in DOMAIN ctr \cup {p} |-> IF q = p THEN n ELSE ctr[q]]>>
            ELSE <<TRUE, ctr>>
       ELSE IF p # None /\ p \in DOMAIN ctr
            THEN <<TRUE, [q \in DOMAIN ctr \ {p} |-> ctr[q]]>>
            ELSE <<TRUE, ctr>>

\* an entry test that accepts every lift cell
CanEnterLiftAt_any_lift_cell(tx, ty) == is_inside_lift(tx, ty)

\* can_enter_lift / can_enter_lift_left / can_enter_lift_right for target (tx, ty)
CanEnterLiftAt(tx, ty) ==
    /\ is_inside_lift(tx, ty)
    /\ ty = entry_y
    /\ entry_x <= tx /\ tx < entry_x + shaft_width

\* destination tests that leave out the hot bin's walls
ZonesAllow_no_hotbin_wall(z, tx, ty) ==
    /\ (~z \/ ~coldbin_is_wall(tx, ty))
    /\ (~z \/ ~separator_is_wall(tx, ty) \/ can_enter_separator(tx, ty))
    /\ (~z \/ ~is_inside_lift(tx, ty) \/ CanEnterLiftAt(tx, ty))

\* a destination test that treats the hot bin's floor opening as open at all
\* times
ZonesAllow_hotbin_floor_open(z, tx, ty) ==
    /\ (~z \/ ~hotbin_is_wall(tx, ty)
           \/ (/\ ty = hotbin_floor_y
               /\ tx \in hotbin_opening_start_x..(hotbin_opening_end_x - 1)))
    /\ (~z \/ ~coldbin_is_wall(tx, ty))
    /\ (~z \/ ~separator_is_wall(tx, ty) \/ can_enter_separator(tx, ty))
    /\ (~z \/ ~is_inside_lift(tx, ty) \/ CanEnterLiftAt(tx, ty))

\* the zone part of the three destination tests of update_particle
ZonesAllow(z, tx, ty) ==
    /\ (~z \/ ~hotbin_is_wall(tx, ty))
    /\ (~z \/ ~coldbin_is_wall(tx, ty))
    /\ (~z \/ ~separator_is_wall(tx, ty) \/ can_enter_separator(tx, ty))
    /\ (~z \/ ~is_inside_lift(tx, ty) \/ CanEnterLiftAt(tx, ty))

\* a diagonal part that looks to the right only when the left is closed
Directions_left_first(w, z, x, y) ==
    IF /\ x > 0
       /\ y + 1 < height
       /\ is_empty(w.grid, x - 1, y + 1)
       /\ ZonesAllow(z, x - 1, y + 1)
    THEN {-1}
    ELSE {d \in {1} : /\ x < width - 1
                      /\ y + 1 < height
                      /\ is_empty(w.grid, x + 1, y + 1)
                      /\ ZonesAllow(z, x + 1, y + 1)}

\* directions collected by the diagonal part of update_particle
Directions(w, z, x, y) ==
    LET target_y == y + 1
    IN {d \in {-1, 1} :
          /\ (IF d = -1 THEN x > 0 ELSE x < width - 1)
          /\ target_y < height
          /\ is_empty(w.grid, x + d, target_y)
          /\ ZonesAllow(z, x + d, target_y)}

\* the deferral without the separator test
OwnedByZone_lift_only(z, x, y) == z /\ is_inside_lift(x, y)

\* update_particle returns False for a cell inside the lift, then for a cell
\* inside the separator
OwnedByZone(z, x, y) ==
    IF z /\ is_inside_lift(x, y) THEN TRUE
    ELSE IF z /\ separator_is_inside(x, y) THEN TRUE
    ELSE FALSE

\* update_particle(x, y, hotbin, coldbin, lift, separator, psg): the set of
\* <<returned value, world afterwards>> it can produce (random.choice)
update_particle(w, x, y, z) ==
    IF ~is_valid_position(x, y) \/ <<x, y>> \notin DOMAIN w.grid
    THEN {<<FALSE, w>>}
    ELSE LET slow == IF z THEN should_particle_move_slowly(w, x, y, z)
                          ELSE <<TRUE, w.psg_speed_counter>>
             w1 == [w EXCEPT !.psg_speed_counter = slow[2]]
             target_y == y + 1
         IN IF z /\ ~slow[1] THEN {<<FALSE, w1>>}
            ELSE IF OwnedByZone(z, x, y) THEN {<<FALSE, w1>>}
            ELSE IF /\ target_y < height
                    /\ is_empty(w1.grid, x, target_y)
                    /\ ZonesAllow(z, x, target_y)
            THEN {move_particle(w1, x, y, x, target_y)}
            ELSE IF Directions(w1, z, x, y) # {}
            THEN {move_particle(w1, x, y, x + d, target_y) : d \in Directions(w1, z, x, y)}
            ELSE {<<FALSE, w1>>}

\* ------------------------------------------- cells in the order of a scan
\* for y in range(...): for x in range(...)
Before(c, d) == c[2] < d[2] \/ (c[2] = d[2] /\ c[1] < d[1])

RECURSIVE ScanOrder(_)
ScanOrder(S) ==
    IF S = {} THEN <<>>
    ELSE LET c == CHOOSE c \in S : \A d \in S \ {c} : Before(c, d)
         IN <<c>> \o ScanOrder(S \ {c})

\* the cursor of a sweep that has not examined a cell yet
NoCell == <<-1, -1>>

\* a sweep that goes from the top row down and from the left to the right
SweepBefore_top_down(c, d) == Before(c, d)

\* the gravity sweep of update_physics reaches cell c before cell d: rows from
\* the bottom up, and inside a row columns from the right to the left
SweepBefore(c, d) == Before(d, c)

\* the occupied cells the sweep has still to reach after the cell `cur';
\* range(height - 2, -1, -1) leaves the bottom row out
SweepRest(g, cur) ==
    {c \in DOMAIN g : /\ c[2] <= height - 2
                      /\ (cur = NoCell \/ SweepBefore(cur, c))}

\* the next occupied cell of the sweep
SweepNext(g, cur) ==
    CHOOSE c \in SweepRest(g, cur) : \A d \in SweepRest(g, cur) \ {c} : SweepBefore(c, d)

\* ------------------------------------------------------ Lift: the conveyor
\* _get_next_positions(x, y, segment_name): the candidate cells, in order
get_next_positions(x, y, segment_name) ==
    IF segment_name = "cb_vertical"
    THEN IF y < cb_shaft_y + cb_shaft_height - 1
         THEN << <<x, y + 1>> >>
         ELSE LET relative_x == x - cb_shaft_x
                  horizontal_x == cb_hz_shaft_x + relative_x
              IN IF cb_hz_shaft_x <= horizontal_x
                    /\ horizontal_x < cb_hz_shaft_x + Min(cb_hz_shaft_length, shaft_width)
                 THEN << <<horizontal_x, cb_hz_shaft_y>> >>
                 ELSE [offset \in 1..Min(cb_hz_shaft_length, shaft_width) |->
                          <<cb_hz_shaft_x + offset - 1, cb_hz_shaft_y>>]
    ELSE IF segment_name = "cb_horizontal"
    THEN IF x < cb_hz_shaft_x + cb_hz_shaft_length - 1
         THEN << <<x + 1, y>> >>
         ELSE LET relative_y == y - cb_hz_shaft_y
                  main_x == main_shaft_x + relative_y
              IN IF main_shaft_x <= main_x /\ main_x < main_shaft_x + shaft_width
                 THEN << <<main_x, main_shaft_y + main_shaft_height - 1>> >>
                 ELSE [offset \in 1..shaft_width |->
                          <<main_shaft_x + offset - 1, main_shaft_y + main_shaft_height - 1>>]
    ELSE IF segment_name = "main_vertical"
    THEN IF y > main_shaft_y
         THEN << <<x, y - 1>> >>
         ELSE LET relative_x == x - main_shaft_x
                  horizontal_y == rcv_hz_shaft_y + relative_x
              IN IF rcv_hz_shaft_y <= horizontal_y /\ horizontal_y < rcv_hz_shaft_y + shaft_width
                 THEN << <<rcv_hz_shaft_x + rcv_hz_shaft_length - 1, horizontal_y>> >>
                 ELSE [offset \in 1..shaft_width |->
                          <<rcv_hz_shaft_x + rcv_hz_shaft_length - 1, rcv_hz_shaft_y + offset - 1>>]
    ELSE IF segment_name = "rcv_horizontal"
    THEN IF x > rcv_hz_shaft_x
         THEN << <<x - 1, y>> >>
         ELSE LET relative_y == y - rcv_hz_shaft_y
                  vertical_x == rcv_vt_shaft_x + relative_y
              IN IF rcv_vt_shaft_x <= vertical_x /\ vertical_x < rcv_vt_shaft_x + shaft_width
                 THEN << <<vertical_x, rcv_vt_shaft_y>> >>
                 ELSE [offset \in 1..shaft_width |->
                          <<rcv_vt_shaft_x + offset - 1, rcv_vt_shaft_y>>]
    ELSE IF segment_name = "rcv_vertical"
    THEN << <<x, y + 1>> >>
    ELSE <<>>

\* exit positions tried centre, right, left
get_exit_positions_right_first(x, y) == << <<x, y + 1>>, <<x + 1, y + 1>>, <<x - 1, y + 1>> >>

\* _get_exit_positions(x, y): centre, left, right
get_exit_positions(x, y) == << <<x, y + 1>>, <<x - 1, y + 1>>, <<x + 1, y + 1>> >>

\* a classification that takes every cell of the lift for rcv_vertical
SegmentOf_all_rcv_vertical(x, y) == IF is_inside_lift(x, y) THEN "rcv_vertical" ELSE "none"

\* the segment a particle of particles_to_move is classified into
SegmentOf(x, y) ==
    IF is_inside_cb_vertical(x, y) THEN "cb_vertical"
    ELSE IF is_inside_cb_horizontal(x, y) THEN "cb_horizontal"
    ELSE IF is_inside_main_vertical(x, y) THEN "main_vertical"
    ELSE IF is_inside_rcv_horizontal(x, y) THEN "rcv_horizontal"
    ELSE IF is_inside_rcv_vertical(x, y) THEN "rcv_vertical"
    ELSE "none"

segment_order == <<"rcv_vertical", "rcv_horizontal", "main_vertical", "cb_horizontal", "cb_vertical">>

\* sort key of _process_segment_particles: a is strictly ahead of b
Ahead(a, b, segment_name) ==
    IF segment_name = "cb_vertical" THEN a.y > b.y
    ELSE IF segment_name = "cb_horizontal" THEN a.x > b.x
    ELSE IF segment_name = "main_vertical" THEN a.y < b.y
    ELSE IF segment_name = "rcv_horizontal" THEN a.x < b.x
    ELSE IF segment_name = "rcv_vertical" THEN a.y > b.y
    ELSE FALSE

\* list.sort is stable
RECURSIVE SortInsert(_, _, _)
SortInsert(s, e, segment_name) ==
    IF s = <<>> THEN <<e>>
    ELSE IF Ahead(e, Head(s), segment_name) THEN <<e>> \o s
    ELSE <<Head(s)>> \o SortInsert(Tail(s), e, segment_name)

RECURSIVE SortSegment(_, _)
SortSegment(s, segment_name) ==
    IF s = <<>> THEN <<>>
    ELSE SortInsert(SortSegment(SubSeq(s, 1, Len(s) - 1), segment_name), s[Len(s)], segment_name)

\* index of the first candidate that is unclaimed, in bounds and empty; 0 if none
FirstFree(g, claimed, positions) ==
    LET ok == {i \in 1..Len(positions) :
                  /\ positions[i] \notin claimed
                  /\ is_valid_position(positions[i][1], positions[i][2])
                  /\ is_empty(g, positions[i][1], positions[i][2])}
    IN IF ok = {} THEN 0 ELSE CHOOSE i \in ok : \A j \in ok : i <= j

\* index of the first exit position the lateral nudge may take; 0 if none
FirstExit(g, claimed, positions) ==
    LET ok == {i \in 1..Len(positions) :
                  /\ positions[i] \notin claimed
                  /\ is_valid_position(positions[i][1], positions[i][2])
                  /\ is_empty(g, positions[i][1], positions[i][2])
                  /\ ~is_inside_lift(positions[i][1], positions[i][2])}
    IN IF ok = {} THEN 0 ELSE CHOOSE i \in ok : \A j \in ok : i <= j

\* grid.move_particle(x, y, new_x, new_y); claimed_positions.add((new_x, new_y));
\* acc: the world, claimed_positions and particles_exited so far
MoveAndClaim(acc, e, pos) ==
    [acc EXCEPT !.w = move_particle(acc.w, e.x, e.y, pos[1], pos[2])[2],
                !.claimed = acc.claimed \cup {pos}]

\* the lateral nudge of a blocked particle at the bottom of rcv_vertical:
\* k is the index of the exit position taken, 0 if none
TryExit(acc, e, exit_positions, k) ==
    IF k # 0
    THEN [MoveAndClaim(acc, e, exit_positions[k]) EXCEPT !.exited = acc.exited + 1]
    ELSE acc

\* a loop body that counts every step inside rcv_vertical as an exit
TryNext_counts_every_step(acc, e, segment_name, next_positions, i) ==
    IF i = 0 /\ segment_name = "rcv_vertical"
    THEN IF e.y >= rcv_vt_shaft_y + rcv_vt_shaft_height - 1
         THEN TryExit(acc, e, get_exit_positions(e.x, e.y),
                      FirstExit(acc.w.grid, acc.claimed, get_exit_positions(e.x, e.y)))
         ELSE acc
    ELSE IF i # 0 /\ segment_name = "rcv_vertical"
    THEN [MoveAndClaim(acc, e, next_positions[i]) EXCEPT !.exited = acc.exited + 1]
    ELSE IF i # 0 THEN MoveAndClaim(acc, e, next_positions[i])
    ELSE acc

\* a loop body that does not count the particle that steps out of rcv_vertical
TryNext_exit_not_counted(acc, e, segment_name, next_positions, i) ==
    IF i = 0 /\ segment_name = "rcv_vertical"
    THEN IF e.y >= rcv_vt_shaft_y + rcv_vt_shaft_height - 1
         THEN TryExit(acc, e, get_exit_positions(e.x, e.y),
                      FirstExit(acc.w.grid, acc.claimed, get_exit_positions(e.x, e.y)))
         ELSE acc
    ELSE IF i # 0 THEN MoveAndClaim(acc, e, next_positions[i])
    ELSE acc

\* body of the loop of _process_segment_particles for one (x, y, particle):
\* i is the index of the candidate taken, 0 if the particle did not move
TryNext(acc, e, segment_name, next_positions, i) ==
    IF i = 0 /\ segment_name = "rcv_vertical"
    THEN IF e.y >= rcv_vt_shaft_y + rcv_vt_shaft_height - 1
         THEN TryExit(acc, e, get_exit_positions(e.x, e.y),
                      FirstExit(acc.w.grid, acc.claimed, get_exit_positions(e.x, e.y)))
         ELSE acc
    ELSE IF i # 0 /\ segment_name = "rcv_vertical"
    THEN IF ~is_inside_lift(next_positions[1][1], next_positions[1][2])
         THEN [MoveAndClaim(acc, e, next_positions[i]) EXCEPT !.exited = acc.exited + 1]
         ELSE MoveAndClaim(acc, e, next_positions[i])
    ELSE IF i # 0 THEN MoveAndClaim(acc, e, next_positions[i])
    ELSE acc

ProcessCandidates(acc, e, segment_name, next_positions) ==
    TryNext(acc, e, segment_name, next_positions,
            FirstFree(acc.w.grid, acc.claimed, next_positions))

ProcessParticle(acc, e, segment_name) ==
    ProcessCandidates(acc, e, segment_name, get_next_positions(e.x, e.y, segment_name))

RECURSIVE ProcessList(_, _, _)
ProcessList(acc, s, segment_name) ==
    IF s = <<>> THEN acc
    ELSE ProcessList(ProcessParticle(acc, Head(s), segment_name), Tail(s), segment_name)

\* _process_segment_particles(grid, particles, segment_name): claimed_positions
\* starts empty for every segment
process_segment_particles(acc, s, segment_name) ==
    ProcessList([acc EXCEPT !.claimed = {}], SortSegment(s, segment_name), segment_name)

\* segments[segment_name]: the particles classified into the segment
SegmentParticles(to_move, segment_name) ==
    SelectSeq(to_move, LAMBDA e : SegmentOf(e.x, e.y) = segment_name)

\* the segments processed in flow order, each on the particles it holds when
\* its turn comes
RECURSIVE ProcessSegments_entry_first(_, _, _)
ProcessSegments_entry_first(acc, to_move, k) ==
    IF k > Len(segment_order) THEN acc
    ELSE ProcessSegments_entry_first(
             process_segment_particles(
                 acc,
                 SelectSeq([i \in 1..Len(ScanOrder(DOMAIN acc.w.grid)) |->
                               [x |-> ScanOrder(DOMAIN acc.w.grid)[i][1],
                                y |-> ScanOrder(DOMAIN acc.w.grid)[i][2],
                                particle |-> acc.w.grid[ScanOrder(DOMAIN acc.w.grid)[i]]]],
                           LAMBDA e : SegmentOf(e.x, e.y) = segment_order[Len(segment_order) + 1 - k]),
                 segment_order[Len(segment_order) + 1 - k]),
             to_move, k + 1)

\* for segment_name in segment_order, from its k-th entry on
RECURSIVE ProcessSegments(_, _, _)
ProcessSegments(acc, to_move, k) ==
    IF k > Len(segment_order) THEN acc
    ELSE ProcessSegments(process_segment_particles(acc, SegmentParticles(to_move, segment_order[k]),
                                                   segment_order[k]),
                         to_move, k + 1)

\* the entry-tracking loop: cells of the entry row holding an unmarked particle
EntryCells(w) ==
    {c \in DOMAIN w.grid :
        /\ c[2] = entry_y
        /\ entry_x <= c[1] /\ c[1] < entry_x + shaft_width
        /\ is_valid_position(c[1], c[2])
        /\ ~w.particles[w.grid[c]].just_entered_lift}

\* an entry-tracking loop that counts nothing
MarkEntered_counts_nothing(w, x, entered) == <<w.particles, entered>>

RECURSIVE MarkEntered(_, _, _)
\* walks the entry row left to right: <<particles afterwards, particles_entered>>
MarkEntered(w, x, entered) ==
    IF x >= entry_x + shaft_width THEN <<w.particles, entered>>
    ELSE IF <<x, entry_y>> \in EntryCells(w)
    THEN MarkEntered([w EXCEPT !.particles[w.grid[<<x, entry_y>>]].just_entered_lift = TRUE],
                     x + 1, entered + 1)
    ELSE MarkEntered(w, x + 1, entered)

\* particles_to_move: every particle found inside the lift, in scan order
ParticlesToMove(g) ==
    LET cells == ScanOrder({c \in DOMAIN g : is_valid_position(c[1], c[2]) /\ is_inside_lift(c[1], c[2])})
    IN [i \in 1..Len(cells) |-> [x |-> cells[i][1], y |-> cells[i][2], particle |-> g[cells[i]]]]

\* delattr(particle, '_just_entered_lift') for every particle found in the lift
ClearMarkers(ps, to_move) ==
    [p \in DOMAIN ps |->
        IF \E i \in 1..Len(to_move) : to_move[i].particle = p
        THEN [ps[p] EXCEPT !.just_entered_lift = FALSE]
        ELSE ps[p]]

\* the lift's counters after an active frame
LiftAfter(acc, fc, entered) ==
    <<acc.w, [frame_counter |-> fc,
              particles_entered |-> entered,
              particles_exited |-> acc.exited]>>

\* the active part of update_particles_in_lift: m is the result of the
\* entry-tracking loop, to_move is particles_to_move
MoveParticlesInLift(w, l, fc, m, to_move) ==
    LiftAfter(ProcessSegments([w |-> [w EXCEPT !.particles = ClearMarkers(m[1], to_move)],
                               claimed |-> {},
                               exited |-> l.particles_exited],
                              to_move, 1),
              fc, m[2])

\* a lift without the frame test: every call is an active one
update_particles_in_lift_every_call(w, l) ==
    MoveParticlesInLift(w, l, l.frame_counter + 1,
                        MarkEntered(w, entry_x, l.particles_entered),
                        ParticlesToMove(w.grid))

\* update_particles_in_lift(grid): <<world afterwards, lift afterwards>>
update_particles_in_lift(w, l) ==
    IF (l.frame_counter + 1) % lift_period # 0
    THEN <<w, [l EXCEPT !.frame_counter = l.frame_counter + 1]>>
    ELSE MoveParticlesInLift(w, l, l.frame_counter + 1,
                             MarkEntered(w, entry_x, l.particles_entered),
                             ParticlesToMove(w.grid))

\* -------------------------------------------------------------- Separator
exit_y == bottom_y + separator_thickness

\* separate_particle(particle, grid): the exit cells it can return; the random
\* attempts can hit any free column and the sequential scan returns a free one
\* whenever one exists; {} stands for (None, None)
\* a scan that stops one column short of distribution_end_x
separate_particle_skips_last(w) ==
    {<<new_x, exit_y>> : new_x \in
        {x \in distribution_start_x..(distribution_end_x - 2) :
            is_valid_position(x, exit_y) /\ is_empty(w.grid, x, exit_y)}}

\* a scan without the random attempts
separate_particle_first_free(w) ==
    LET free == {x \in distribution_start_x..(distribution_end_x - 1) :
                    is_valid_position(x, exit_y) /\ is_empty(w.grid, x, exit_y)}
    IN {<<new_x, exit_y>> : new_x \in {x \in free : \A x2 \in free : x <= x2}}

separate_particle(w) ==
    {<<new_x, exit_y>> : new_x \in
        {x \in distribution_start_x..(distribution_end_x - 1) :
            is_valid_position(x, exit_y) /\ is_empty(w.grid, x, exit_y)}}

\* particles_to_separate of update_particles_in_separator, in scan order
ParticlesToSeparate(g) ==
    LET cells == ScanOrder({c \in DOMAIN g :
                     /\ c[2] \in separator_y..(bottom_y + separator_thickness - 1)
                     /\ c[1] \in distribution_start_x..(distribution_end_x - 1)
                     /\ is_valid_position(c[1], c[2])
                     /\ separator_is_inside(c[1], c[2])})
    IN [i \in 1..Len(cells) |-> [x |-> cells[i][1], y |-> cells[i][2], particle |-> g[cells[i]]]]

\* ------------------------------------------------------- PSG and Receiver
\* a cooling loop that books the full rate for every particle
CoolCells_books_rate(g, ps, total, cells, rate) ==
    <<[p \in DOMAIN ps |->
          IF \E i \in 1..Len(cells) : g[cells[i]] = p
          THEN [ps[p] EXCEPT !.temperature = Max(0, ps[p].temperature - rate)]
          ELSE ps[p]],
      total + rate * Len(cells)>>

RECURSIVE CoolCells(_, _, _, _, _)
\* the loop of update_particles_in_psg over the occupied PSG cells; rate is
\* self.cooling_rate
CoolCells(g, ps, total, cells, rate) ==
    IF cells = <<>> THEN <<ps, total>>
    ELSE LET p == g[Head(cells)]
             heat_to_remove == Min(rate, ps[p].temperature)
         IN CoolCells(g,
                [ps EXCEPT ![p].temperature = Max(0, ps[p].temperature - heat_to_remove)],
                total + heat_to_remove, Tail(cells), rate)

\* update_particles_in_psg(grid): <<particles afterwards, psg afterwards>>
update_particles_in_psg(w, g) ==
    LET fc == g.frame_counter + 1
    IN IF fc % g.cooling_interval # 0
       THEN <<w.particles, [g EXCEPT !.frame_counter = fc]>>
       ELSE LET r == CoolCells(w.grid, w.particles, g.total_heat_extracted,
                        ScanOrder({c \in DOMAIN w.grid :
                            is_valid_position(c[1], c[2]) /\ psg_is_inside(c[1], c[2])}),
                        g.cooling_rate)
            IN <<r[1], [g EXCEPT !.frame_counter = fc, !.total_heat_extracted = r[2]]>>

\* a heating loop that books the full rate for every particle
HeatCells_books_rate(g, ps, total, cells, rate) ==
    <<[p \in DOMAIN ps |->
          IF \E i \in 1..Len(cells) : g[cells[i]] = p
          THEN [ps[p] EXCEPT !.temperature = Min(max_temperature, ps[p].temperature + rate)]
          ELSE ps[p]],
      total + rate * Len(cells)>>

RECURSIVE HeatCells(_, _, _, _, _)
\* the loop of update_particles_in_receiver over the occupied receiver cells;
\* rate is self.heating_rate
HeatCells(g, ps, total, cells, rate) ==
    IF cells = <<>> THEN <<ps, total>>
    ELSE LET p == g[Head(cells)]
             heat_to_add == Min(rate, max_temperature - ps[p].temperature)
         IN HeatCells(g,
                [ps EXCEPT ![p].temperature = Min(max_temperature, ps[p].temperature + heat_to_add)],
                total + heat_to_add, Tail(cells), rate)

\* update_particles_in_receiver(grid): <<particles afterwards, receiver afterwards>>
update_particles_in_receiver(w, r) ==
    LET fc == r.frame_counter + 1
    IN IF fc % r.heating_interval # 0
       THEN <<w.particles, [r EXCEPT !.frame_counter = fc]>>
       ELSE LET h == HeatCells(w.grid, w.particles, r.total_heat_added,
                        ScanOrder({c \in DOMAIN w.grid :
                            is_valid_position(c[1], c[2]) /\ receiver_is_inside(c[1], c[2])}),
                        r.heating_rate)
            IN <<h[1], [r EXCEPT !.frame_counter = fc, !.total_heat_added = h[2]]>>

\* ------------------------------------------------------------- Simulation
spawn_x == receiver_x + receiver_width \div 2
spawn_y == Max(0, receiver_y - 3)

\* thermal_loss_rates
loss_lift == 5
loss_hotbin == 5
loss_coldbin == 5
loss_psg == 5
loss_default == 0

LossRate(x, y) ==
    IF is_inside_lift(x, y) THEN loss_lift
    ELSE IF hotbin_is_inside(x, y) THEN loss_hotbin
    ELSE IF coldbin_is_inside(x, y) THEN loss_coldbin
    ELSE IF psg_is_inside(x, y) THEN loss_psg
    ELSE loss_default

\* Particle.cool
cool_no_floor(t, amount) == t - amount
cool(t, amount) == Max(0, t - amount)
\* Particle.heat
heat(t, amount) == Min(t + amount, max_temperature)

\* a thermal loss that is applied whenever it is called
apply_thermal_loss_every_frame(pt, loss_amount, current_frame) ==
    [pt EXCEPT !.temperature = cool(pt.temperature, loss_amount),
               !.last_thermal_loss_frame = current_frame]

\* Particle.apply_thermal_loss(loss_amount, current_frame)
apply_thermal_loss(pt, loss_amount, current_frame) ==
    IF current_frame - pt.last_thermal_loss_frame >= thermal_loss_interval
    THEN [pt EXCEPT !.temperature = cool(pt.temperature, loss_amount),
                    !.last_thermal_loss_frame = current_frame]
    ELSE pt

RECURSIVE LossCells(_, _, _, _)
LossCells(g, ps, frame, cells) ==
    IF cells = <<>> THEN ps
    ELSE LET c == Head(cells)
             p == g[c]
         IN LossCells(g, [ps EXCEPT ![p] = apply_thermal_loss(ps[p], LossRate(c[1], c[2]), frame)],
                      frame, Tail(cells))

\* apply_thermal_losses(): the particles afterwards
apply_thermal_losses(w, frame) ==
    LossCells(w.grid, w.particles, frame,
              ScanOrder({c \in DOMAIN w.grid : is_valid_position(c[1], c[2])}))

\* a spawn_particle() that does not look at the spawn timer
spawn_particle_ignores_timer(w, s) ==
    IF s.spawning_complete \/ s.spawn_count >= s.max_spawn
    THEN <<w, s>>
    ELSE IF is_empty(w.grid, spawn_x, spawn_y)
    THEN LET particle == Len(w.particles) + 1
             w1 == [w EXCEPT !.particles = Append(w.particles, NewParticle(spawn_x, spawn_y))]
             r == place_particle(w1, particle, spawn_x, spawn_y)
         IN IF r[1]
            THEN <<r[2], [s EXCEPT !.spawn_count = s.spawn_count + 1,
                                   !.spawn_timer = spawn_delay,
                                   !.spawning_complete = (s.spawn_count + 1 >= s.max_spawn)]>>
            ELSE <<r[2], s>>
    ELSE <<w, s>>

\* spawn_particle(): <<world afterwards, simulation afterwards>>
spawn_particle(w, s) ==
    IF s.spawning_complete \/ s.spawn_count >= s.max_spawn \/ s.spawn_timer > 0
    THEN <<w, s>>
    ELSE IF is_empty(w.grid, spawn_x, spawn_y)
    THEN LET particle == Len(w.particles) + 1
             w1 == [w EXCEPT !.particles = Append(w.particles, NewParticle(spawn_x, spawn_y))]
             r == place_particle(w1, particle, spawn_x, spawn_y)
         IN IF r[1]
            THEN <<r[2], [s EXCEPT !.spawn_count = s.spawn_count + 1,
                                   !.spawn_timer = spawn_delay,
                                   !.spawning_complete = (s.spawn_count + 1 >= s.max_spawn)]>>
            ELSE <<r[2], s>>
    ELSE <<w, s>>

NoCall == [op |-> "none", x |-> 0, y |-> 0, to_x |-> 0, to_y |-> 0, particle |-> None, ret |-> FALSE]

\* the state after Simulation(SCREEN_WIDTH, SCREEN_HEIGHT, CELL_SIZE)
Init ==
    /\ width = grid_width
    /\ height = grid_height
    /\ grid = <<>>
    /\ psg_speed_counter = <<>>
    /\ particles = <<>>
    /\ hotbin_is_open = FALSE
    /\ coldbin_is_open = FALSE
    /\ lift = [frame_counter |-> 0, particles_entered |-> 0, particles_exited |-> 0]
    /\ psg = [frame_counter |-> 0, total_heat_extracted |-> 0,
             cooling_rate |-> cooling_rate, cooling_interval |-> cooling_interval]
    /\ receiver = [frame_counter |-> 0, total_heat_added |-> 0,
                  heating_rate |-> heating_rate, heating_interval |-> heating_interval]
    /\ \E m \in 1..MaxSpawn :
          sim = [spawn_count |-> 0, max_spawn |-> m, spawn_timer |-> 0,
                 spawning_complete |-> FALSE, hotbin_timer |-> 0, coldbin_timer |-> 0,
                 frame_counter |-> 0, running |-> FALSE]
    /\ zones = TRUE
    /\ pc = "idle"
    /\ cursor = NoCell
    /\ queue = <<>>
    /\ sweeps = 0
    /\ call = NoCall
    /\ relocated = {}

\* Simulation.start()
Start ==
    /\ pc = "idle"
    /\ ~sim.running
    /\ sim' = [sim EXCEPT !.running = TRUE]
    /\ UNCHANGED <<width, height, relocated, gridVars, zoneVars, zones, pc, cursor, queue, sweeps, call>>

\* an update() whose bin timers run on without the reset at the full cycle
UpdateBegin_timers_never_reset ==
    /\ pc = "idle"
    /\ sim.running
    /\ sim.frame_counter < MaxFrames
    /\ LET s1 == [sim EXCEPT !.frame_counter = sim.frame_counter + 1,
                             !.spawn_timer = IF sim.spawn_timer > 0 THEN sim.spawn_timer - 1
                                             ELSE sim.spawn_timer]
           r == spawn_particle(Here, s1)
           s2 == r[2]
           ht == s2.hotbin_timer + 1
           ct == s2.coldbin_timer + 1
       IN /\ sim' = [s2 EXCEPT !.hotbin_timer = ht, !.coldbin_timer = ct]
          /\ grid' = r[1].grid
          /\ particles' = r[1].particles
          /\ hotbin_is_open' = ~(ht < hotbin_cycle_duration)
          /\ coldbin_is_open' = ~(ct < coldbin_cycle_duration)
    /\ pc' = "lift"
    /\ UNCHANGED <<width, height, relocated, psg_speed_counter, lift, psg, receiver, zones, cursor,
                   queue, sweeps, call>>

\* Simulation.update() up to the call of update_physics(): frame counter,
\* spawn timer, spawn_particle(), the two bin timers
UpdateBegin ==
    /\ pc = "idle"
    /\ sim.running
    /\ sim.frame_counter < MaxFrames
    /\ LET s1 == [sim EXCEPT !.frame_counter = sim.frame_counter + 1,
                             !.spawn_timer = IF sim.spawn_timer > 0 THEN sim.spawn_timer - 1
                                             ELSE sim.spawn_timer]
           r == spawn_particle(Here, s1)
           s2 == r[2]
           ht == IF s2.hotbin_timer + 1 >= hotbin_cycle_duration * 2 THEN 0 ELSE s2.hotbin_timer + 1
           ct == IF s2.coldbin_timer + 1 >= coldbin_cycle_duration * 2 THEN 0 ELSE s2.coldbin_timer + 1
       IN /\ sim' = [s2 EXCEPT !.hotbin_timer = ht, !.coldbin_timer = ct]
          /\ grid' = r[1].grid
          /\ particles' = r[1].particles
          /\ hotbin_is_open' = ~(ht < hotbin_cycle_duration)
          /\ coldbin_is_open' = ~(ct < coldbin_cycle_duration)
    /\ pc' = "lift"
    /\ UNCHANGED <<width, height, relocated, psg_speed_counter, lift, psg, receiver, zones, cursor,
                   queue, sweeps, call>>

\* update_physics(): self.lift.update_particles_in_lift(self.grid)
LiftUpdate ==
    /\ pc = "lift"
    /\ LET r == update_particles_in_lift(Here, lift)
       IN /\ grid' = r[1].grid
          /\ particles' = r[1].particles
          /\ lift' = r[2]
    /\ pc' = "separator"
    /\ relocated' = {i \in DOMAIN particles :
                        <<particles'[i].x, particles'[i].y>> # <<particles[i].x, particles[i].y>>}
    /\ UNCHANGED <<width, height, psg_speed_counter, hotbin_is_open, coldbin_is_open, psg,
                   receiver, sim, zones, cursor, queue, sweeps, call>>

\* update_particles_in_separator: the scan that builds particles_to_separate
SeparatorScan ==
    /\ pc = "separator"
    /\ queue' = ParticlesToSeparate(grid)
    /\ pc' = "separate"
    /\ UNCHANGED <<width, height, relocated, gridVars, zoneVars, sim, zones, cursor, sweeps, call>>

\* update_particles_in_separator: one iteration of the processing loop
SeparatorStep ==
    /\ pc = "separate"
    /\ queue # <<>>
    /\ LET e == Head(queue)
           targets == separate_particle(Here)
       IN IF targets = {}
          THEN UNCHANGED gridVars
          ELSE \E t \in targets :
                  LET r == move_particle(Here, e.x, e.y, t[1], t[2])
                  IN /\ grid' = r[2].grid
                     /\ particles' = r[2].particles
                     /\ UNCHANGED psg_speed_counter
    /\ queue' = Tail(queue)
    /\ relocated' = relocated \cup
                        {i \in {Head(queue).particle} :
                            <<particles'[i].x, particles'[i].y>> # <<particles[i].x, particles[i].y>>}
    /\ UNCHANGED <<width, height, zoneVars, sim, zones, pc, cursor, sweeps, call>>

\* update_physics(): self.psg.update_particles_in_psg(self.grid)
PSGUpdate ==
    /\ pc = "separate"
    /\ queue = <<>>
    /\ LET r == update_particles_in_psg(Here, psg)
       IN /\ particles' = r[1]
          /\ psg' = r[2]
    /\ pc' = "receiver"
    /\ UNCHANGED <<width, height, relocated, grid, psg_speed_counter, hotbin_is_open, coldbin_is_open,
                   lift, receiver, sim, zones, cursor, queue, sweeps, call>>

\* update_physics(): self.receiver.update_particles_in_receiver(self.grid)
ReceiverUpdate ==
    /\ pc = "receiver"
    /\ LET r == update_particles_in_receiver(Here, receiver)
       IN /\ particles' = r[1]
          /\ receiver' = r[2]
    /\ pc' = "thermal"
    /\ UNCHANGED <<width, height, relocated, grid, psg_speed_counter, hotbin_is_open, coldbin_is_open,
                   lift, psg, sim, zones, cursor, queue, sweeps, call>>

\* update_physics(): self.apply_thermal_losses(), then the sweep starts
ThermalLosses ==
    /\ pc = "thermal"
    /\ particles' = apply_thermal_losses(Here, sim.frame_counter)
    /\ pc' = "gravity"
    /\ cursor' = NoCell
    /\ UNCHANGED <<width, height, relocated, grid, psg_speed_counter, zoneVars, sim, zones, queue,
                   sweeps, call>>

\* the sweep: update_particle on the next occupied cell
GravityStep ==
    /\ pc = "gravity"
    /\ SweepRest(grid, cursor) # {}
    /\ LET c == SweepNext(grid, cursor)
       IN /\ \E r \in update_particle(Here, c[1], c[2], zones) :
                /\ grid' = r[2].grid
                /\ particles' = r[2].particles
                /\ psg_speed_counter' = r[2].psg_speed_counter
                /\ call' = [NoCall EXCEPT !.op = "update_particle", !.x = c[1], !.y = c[2],
                                          !.ret = r[1]]
          /\ cursor' = c
    /\ UNCHANGED <<width, height, relocated, zoneVars, sim, zones, pc, queue, sweeps>>

\* an update_physics() that heats the receiver's particles after the sweep
GravityEnd_then_heats ==
    /\ pc = "gravity"
    /\ SweepRest(grid, cursor) = {}
    /\ pc' = "idle"
    /\ cursor' = NoCell
    /\ sweeps' = sweeps + 1
    /\ call' = NoCall
    /\ relocated' = {}
    /\ particles' = update_particles_in_receiver(Here, receiver)[1]
    /\ receiver' = update_particles_in_receiver(Here, receiver)[2]
    /\ UNCHANGED <<width, height, grid, psg_speed_counter, hotbin_is_open, coldbin_is_open,
                   lift, psg, sim, zones, queue>>

\* the sweep has passed the last occupied cell
GravityEnd ==
    /\ pc = "gravity"
    /\ SweepRest(grid, cursor) = {}
    /\ pc' = "idle"
    /\ cursor' = NoCell
    /\ sweeps' = sweeps + 1
    /\ call' = NoCall
    /\ relocated' = {}
    /\ UNCHANGED <<width, height, gridVars, zoneVars, sim, zones, queue>>

Next ==
    \/ Start
    \/ UpdateBegin
    \/ LiftUpdate
    \/ SeparatorScan
    \/ SeparatorStep
    \/ PSGUpdate
    \/ ReceiverUpdate
    \/ ThermalLosses
    \/ GravityStep
    \/ GravityEnd

Spec == Init /\ [][Next]_vars

\* ------------------------------------------- a caller of the Grid methods
\* Grid(TestW, TestH, cell_size) driven call by call, no zone component given
Coords == (-1..width) \X (-1..height)

\* particle identities a cell of g refers to
Held(g) == {g[c] : c \in DOMAIN g}

InitGrid ==
    /\ width = TestW
    /\ height = TestH
    /\ grid = <<>>
    /\ psg_speed_counter = <<>>
    /\ particles = <<>>
    /\ hotbin_is_open = FALSE
    /\ coldbin_is_open = FALSE
    /\ lift = [frame_counter |-> 0, particles_entered |-> 0, particles_exited |-> 0]
    /\ psg = [frame_counter |-> 0, total_heat_extracted |-> 0,
             cooling_rate |-> cooling_rate, cooling_interval |-> cooling_interval]
    /\ receiver = [frame_counter |-> 0, total_heat_added |-> 0,
                  heating_rate |-> heating_rate, heating_interval |-> heating_interval]
    /\ sim = [spawn_count |-> 0, max_spawn |-> 1, spawn_timer |-> 0,
              spawning_complete |-> FALSE, hotbin_timer |-> 0, coldbin_timer |-> 0,
              frame_counter |-> 0, running |-> FALSE]
    /\ zones = FALSE
    /\ pc = "idle"
    /\ cursor = NoCell
    /\ queue = <<>>
    /\ sweeps = 0
    /\ call = NoCall
    /\ relocated = {}

\* particle = Particle(x, y); grid.place_particle(particle, x, y)
PlaceNew ==
    /\ pc = "idle"
    /\ Len(particles) < MaxParticles
    /\ \E c \in Coords :
          LET particle == Len(particles) + 1
              w1 == [Here EXCEPT !.particles = Append(particles, NewParticle(c[1], c[2]))]
              r == place_particle(w1, particle, c[1], c[2])
          IN /\ grid' = r[2].grid
             /\ particles' = r[2].particles
             /\ call' = [NoCall EXCEPT !.op = "place", !.x = c[1], !.y = c[2],
                                       !.particle = particle, !.ret = r[1]]
    /\ pc' = "called"
    /\ UNCHANGED <<width, height, relocated, psg_speed_counter, zoneVars, sim, zones, cursor, queue, sweeps>>

\* grid.place_particle(particle, x, y) with a particle no cell refers to
PlaceAgain ==
    /\ pc = "idle"
    /\ \E particle \in (1..Len(particles)) \ Held(grid) : \E c \in Coords :
          LET r == place_particle(Here, particle, c[1], c[2])
          IN /\ grid' = r[2].grid
             /\ particles' = r[2].particles
             /\ call' = [NoCall EXCEPT !.op = "place", !.x = c[1], !.y = c[2],
                                       !.particle = particle, !.ret = r[1]]
    /\ pc' = "called"
    /\ UNCHANGED <<width, height, relocated, psg_speed_counter, zoneVars, sim, zones, cursor, queue, sweeps>>

\* grid.remove_particle(x, y)
RemoveCall ==
    /\ pc = "idle"
    /\ \E c \in Coords :
          LET r == remove_particle(Here, c[1], c[2])
          IN /\ grid' = r[2].grid
             /\ psg_speed_counter' = r[2].psg_speed_counter
             /\ call' = [NoCall EXCEPT !.op = "remove", !.x = c[1], !.y = c[2],
                                       !.particle = r[1], !.ret = (r[1] # None)]
    /\ pc' = "called"
    /\ UNCHANGED <<width, height, relocated, particles, zoneVars, sim, zones, cursor, queue, sweeps>>

\* grid.move_particle(from_x, from_y, to_x, to_y)
MoveCall ==
    /\ pc = "idle"
    /\ \E f \in Coords : \E t \in Coords :
          LET r == move_particle(Here, f[1], f[2], t[1], t[2])
          IN /\ grid' = r[2].grid
             /\ particles' = r[2].particles
             /\ call' = [NoCall EXCEPT !.op = "move", !.x = f[1], !.y = f[2],
                                       !.to_x = t[1], !.to_y = t[2], !.ret = r[1]]
    /\ pc' = "called"
    /\ UNCHANGED <<width, height, relocated, psg_speed_counter, zoneVars, sim, zones, cursor, queue, sweeps>>

\* grid.update_particle(x, y)
UpdateCall ==
    /\ pc = "idle"
    /\ \E c \in Coords : \E r \in update_particle(Here, c[1], c[2], zones) :
          /\ grid' = r[2].grid
          /\ particles' = r[2].particles
          /\ psg_speed_counter' = r[2].psg_speed_counter
          /\ call' = [NoCall EXCEPT !.op = "update_particle", !.x = c[1], !.y = c[2],
                                    !.ret = r[1]]
    /\ pc' = "called"
    /\ UNCHANGED <<width, height, relocated, zoneVars, sim, zones, cursor, queue, sweeps>>

\* the caller has looked at the returned value
Return ==
    /\ pc = "called"
    /\ pc' = "idle"
    /\ call' = NoCall
    /\ UNCHANGED <<width, height, relocated, gridVars, zoneVars, sim, zones, cursor, queue, sweeps>>

NextGrid ==
    \/ PlaceNew
    \/ PlaceAgain
    \/ RemoveCall
    \/ MoveCall
    \/ UpdateCall
    \/ Return

SpecGrid == InitGrid /\ [][NextGrid]_vars

\* ------------------------------------------------- free fall, no zones
\* Grid(FallW, FallH, cell_size): a particle placed on the top row, possibly a
\* second one anywhere else, then gravity sweeps as update_physics makes them
\* but with no zone component handed to update_particle
MaxSweeps == FallH + 2

InitFall ==
    /\ width = FallW
    /\ height = FallH
    /\ \E x0 \in 0..(FallW - 1) :
       \E other \in {NoCell} \cup (((0..(FallW - 1)) \X (0..(FallH - 1))) \ {<<x0, 0>>}) :
          IF other = NoCell
          THEN /\ grid = (<<x0, 0>> :> 1)
               /\ particles = <<NewParticle(x0, 0)>>
          ELSE /\ grid = (<<x0, 0>> :> 1) @@ (other :> 2)
               /\ particles = <<NewParticle(x0, 0), NewParticle(other[1], other[2])>>
    /\ psg_speed_counter = <<>>
    /\ hotbin_is_open = FALSE
    /\ coldbin_is_open = FALSE
    /\ lift = [frame_counter |-> 0, particles_entered |-> 0, particles_exited |-> 0]
    /\ psg = [frame_counter |-> 0, total_heat_extracted |-> 0,
             cooling_rate |-> cooling_rate, cooling_interval |-> cooling_interval]
    /\ receiver = [frame_counter |-> 0, total_heat_added |-> 0,
                  heating_rate |-> heating_rate, heating_interval |-> heating_interval]
    /\ sim = [spawn_count |-> 0, max_spawn |-> 1, spawn_timer |-> 0,
              spawning_complete |-> FALSE, hotbin_timer |-> 0, coldbin_timer |-> 0,
              frame_counter |-> 0, running |-> FALSE]
    /\ zones = FALSE
    /\ pc = "idle"
    /\ cursor = NoCell
    /\ queue = <<>>
    /\ sweeps = 0
    /\ call = NoCall
    /\ relocated = {}

\* the caller starts the loop over rows and columns
SweepBegin ==
    /\ pc = "idle"
    /\ sweeps < MaxSweeps
    /\ pc' = "gravity"
    /\ cursor' = NoCell
    /\ UNCHANGED <<width, height, relocated, gridVars, zoneVars, sim, zones, queue, sweeps, call>>

NextFall ==
    \/ SweepBegin
    \/ GravityStep
    \/ GravityEnd

SpecFall == InitFall /\ [][NextFall]_vars

\* ------------------------------------- the gravity rule among the zones
\* the Simulation's grid and zone components, particles put by place_particle
\* on cells around the zone edges, then update_particle calls on occupied cells
Box(x0, x1, y0, y1) == (x0..x1) \X (y0..y1)

ProbeCells ==
    \* the separator, the row above it and the exit row
    Box(separator_x - ProbeMargin, separator_x + separator_width - 1 + ProbeMargin,
        separator_y - 1 - ProbeMargin, exit_y + ProbeMargin)
    \* the last row of the receiver shaft of the lift
    \cup Box(rcv_vt_shaft_x - ProbeMargin, rcv_vt_shaft_x + shaft_width - 1 + ProbeMargin,
             rcv_vt_shaft_y + rcv_vt_shaft_height - 1, rcv_vt_shaft_y + rcv_vt_shaft_height)
    \* the floor opening of the hot bin
    \cup Box(hotbin_opening_start_x - 1 - ProbeMargin, hotbin_opening_end_x + ProbeMargin,
             hotbin_floor_y - 1, hotbin_floor_y + ProbeMargin)
    \* the last row of the PSG
    \cup Box(hotbin_opening_start_x, hotbin_opening_end_x - 1,
             psg_y + psg_height - 1 - ProbeMargin, psg_y + psg_height)
    \* the floor opening of the cold bin, which is the entry strip of the lift
    \cup Box(entry_x - 1 - ProbeMargin, entry_x + shaft_width + ProbeMargin,
             entry_y - 1, entry_y + ProbeMargin)
    \* the top edge of the lower horizontal shaft, beside the cold bin shaft
    \cup Box(cb_shaft_x + shaft_width, cb_shaft_x + shaft_width + 1,
             cb_hz_shaft_y - 1, cb_hz_shaft_y)
    \* the two bottom corners of the grid
    \cup Box(0, 1, grid_height - 2, grid_height - 1)
    \cup Box(grid_width - 2, grid_width - 1, grid_height - 2, grid_height - 1)

InitRule ==
    /\ width = grid_width
    /\ height = grid_height
    /\ \E c1 \in ProbeCells : \E c2 \in {NoCell} \cup (ProbeCells \ {c1}) :
          IF c2 = NoCell
          THEN /\ grid = (c1 :> 1)
               /\ particles = <<NewParticle(c1[1], c1[2])>>
          ELSE /\ grid = (c1 :> 1) @@ (c2 :> 2)
               /\ particles = <<NewParticle(c1[1], c1[2]), NewParticle(c2[1], c2[2])>>
    /\ psg_speed_counter = <<>>
    /\ hotbin_is_open \in BOOLEAN
    /\ coldbin_is_open \in BOOLEAN
    /\ lift = [frame_counter |-> 0, particles_entered |-> 0, particles_exited |-> 0]
    /\ psg = [frame_counter |-> 0, total_heat_extracted |-> 0,
             cooling_rate |-> cooling_rate, cooling_interval |-> cooling_interval]
    /\ receiver = [frame_counter |-> 0, total_heat_added |-> 0,
                  heating_rate |-> heating_rate, heating_interval |-> heating_interval]
    /\ sim = [spawn_count |-> 0, max_spawn |-> 1, spawn_timer |-> 0,
              spawning_complete |-> FALSE, hotbin_timer |-> 0, coldbin_timer |-> 0,
              frame_counter |-> 0, running |-> FALSE]
    /\ zones = TRUE
    /\ pc = "idle"
    /\ cursor = NoCell
    /\ queue = <<>>
    /\ sweeps = 0
    /\ call = NoCall
    /\ relocated = {}

\* grid.update_particle(x, y, hotbin, coldbin, lift, separator, psg) on an
\* occupied cell
UpdateOccupied ==
    /\ pc = "idle"
    /\ sweeps < MaxRuleCalls
    /\ \E c \in DOMAIN grid : \E r \in update_particle(Here, c[1], c[2], zones) :
          /\ grid' = r[2].grid
          /\ particles' = r[2].particles
          /\ psg_speed_counter' = r[2].psg_speed_counter
          /\ call' = [NoCall EXCEPT !.op = "update_particle", !.x = c[1], !.y = c[2],
                                    !.ret = r[1]]
    /\ pc' = "called"
    /\ sweeps' = sweeps + 1
    /\ UNCHANGED <<width, height, relocated, zoneVars, sim, zones, cursor, queue>>

NextRule ==
    \/ UpdateOccupied
    \/ Return

SpecRule == InitRule /\ [][NextRule]_vars

\* ------------------------------------- update_physics among the zones
\* the Simulation's grid and zone components with particles put on cells
\* around the zone edges, the lift at any phase of its period, then
\* update_physics() called on that state
InitZone ==
    /\ width = grid_width
    /\ height = grid_height
    /\ \E c1 \in ProbeCells : \E c2 \in {NoCell} \cup (ProbeCells \ {c1}) :
          IF c2 = NoCell
          THEN /\ grid = (c1 :> 1)
               /\ particles = <<NewParticle(c1[1], c1[2])>>
          ELSE /\ grid = (c1 :> 1) @@ (c2 :> 2)
               /\ particles = <<NewParticle(c1[1], c1[2]), NewParticle(c2[1], c2[2])>>
    /\ psg_speed_counter = <<>>
    /\ hotbin_is_open \in BOOLEAN
    /\ coldbin_is_open \in BOOLEAN
    /\ \E fc \in 0..(lift_period - 1) :
          lift = [frame_counter |-> fc, particles_entered |-> 0, particles_exited |-> 0]
    /\ psg = [frame_counter |-> 0, total_heat_extracted |-> 0,
             cooling_rate |-> cooling_rate, cooling_interval |-> cooling_interval]
    /\ receiver = [frame_counter |-> 0, total_heat_added |-> 0,
                  heating_rate |-> heating_rate, heating_interval |-> heating_interval]
    /\ sim = [spawn_count |-> 0, max_spawn |-> 1, spawn_timer |-> 0,
              spawning_complete |-> FALSE, hotbin_timer |-> 0, coldbin_timer |-> 0,
              frame_counter |-> 0, running |-> FALSE]
    /\ zones = TRUE
    /\ pc = "idle"
    /\ cursor = NoCell
    /\ queue = <<>>
    /\ sweeps = 0
    /\ call = NoCall
    /\ relocated = {}

\* update_physics() is entered
PhysicsBegin ==
    /\ pc = "idle"
    /\ sweeps < ZoneTicks
    /\ pc' = "lift"
    /\ UNCHANGED <<width, height, relocated, gridVars, zoneVars, sim, zones, cursor, queue, sweeps, call>>

NextPhysics ==
    \/ PhysicsBegin
    \/ LiftUpdate
    \/ SeparatorScan
    \/ SeparatorStep
    \/ PSGUpdate
    \/ ReceiverUpdate
    \/ ThermalLosses
    \/ GravityStep
    \/ GravityEnd

SpecZone == InitZone /\ [][NextPhysics]_vars

\* ------------------------------------- update_physics on warm particles
\* Particle(x, y, temperature) put on cells at the edges of the receiver and
\* of the PSG, inside the hot bin and inside the separator, with the receiver's heating_rate and the
\* two intervals set by the caller, then update_physics() on that state
InitThermal ==
    /\ width = grid_width
    /\ height = grid_height
    /\ LET Temperatures == {0, 10, cooling_rate, max_temperature - 20, max_temperature}
           ThermalCells ==
              ({receiver_x - 1, receiver_x, receiver_x + receiver_width - 1, receiver_x + receiver_width}
                  \X {receiver_y - 1, receiver_y, receiver_y + receiver_height})
              \cup ({psg_x - 1, psg_x, psg_x + psg_width - 1, psg_x + psg_width}
                  \X {psg_y - 1, psg_y, psg_y + psg_height - 1, psg_y + psg_height})
              \cup {<<hotbin_x + hotbin_thickness, hotbin_y>>, <<distribution_start_x, separator_y>>}
       IN
       \E c1 \in ThermalCells : \E c2 \in {NoCell} \cup (ThermalCells \ {c1}) :
       \E t1 \in Temperatures : \E t2 \in Temperatures :
          IF c2 = NoCell
          THEN /\ grid = (c1 :> 1)
               /\ particles = <<[NewParticle(c1[1], c1[2]) EXCEPT !.temperature = t1]>>
          ELSE /\ grid = (c1 :> 1) @@ (c2 :> 2)
               /\ particles = <<[NewParticle(c1[1], c1[2]) EXCEPT !.temperature = t1],
                                [NewParticle(c2[1], c2[2]) EXCEPT !.temperature = t2]>>
    /\ psg_speed_counter = <<>>
    /\ hotbin_is_open = FALSE
    /\ coldbin_is_open = FALSE
    /\ lift = [frame_counter |-> 0, particles_entered |-> 0, particles_exited |-> 0]
    /\ \E i \in {1, 2} :
          psg = [frame_counter |-> 0, total_heat_extracted |-> 0,
                 cooling_rate |-> cooling_rate, cooling_interval |-> i]
    /\ \E rate \in {50, heating_rate} : \E i \in {1, 2} :
          receiver = [frame_counter |-> 0, total_heat_added |-> 0,
                      heating_rate |-> rate, heating_interval |-> i]
    /\ \E frame \in {0, thermal_loss_interval} :
          sim = [spawn_count |-> 0, max_spawn |-> 1, spawn_timer |-> 0,
                 spawning_complete |-> FALSE, hotbin_timer |-> 0, coldbin_timer |-> 0,
                 frame_counter |-> frame, running |-> FALSE]
    /\ zones = TRUE
    /\ pc = "idle"
    /\ cursor = NoCell
    /\ queue = <<>>
    /\ sweeps = 0
    /\ call = NoCall
    /\ relocated = {}

SpecThermal == InitThermal /\ [][NextPhysics]_vars

\* ------------------------------------- update_physics on a full separator
\* one or two particles in corners of the separator channel and particles on
\* any set of cells of the exit row, then update_physics() called on that
\* state SeparatorTicks times
InitSeparator ==
    /\ width = grid_width
    /\ height = grid_height
    /\ \E R \in SUBSET ({distribution_start_x, distribution_end_x - 1} \X {separator_y, bottom_y - 1}) :
       \E B \in SUBSET ((distribution_start_x..(distribution_end_x - 1)) \X {exit_y}) :
          /\ Cardinality(R) \in 1..2
          /\ LET cells == ScanOrder(R \cup B)
             IN /\ grid = [c \in R \cup B |-> CHOOSE i \in 1..Len(cells) : cells[i] = c]
                /\ particles = [i \in 1..Len(cells) |-> NewParticle(cells[i][1], cells[i][2])]
    /\ psg_speed_counter = <<>>
    /\ hotbin_is_open = FALSE
    /\ coldbin_is_open = FALSE
    /\ lift = [frame_counter |-> 0, particles_entered |-> 0, particles_exited |-> 0]
    /\ psg = [frame_counter |-> 0, total_heat_extracted |-> 0,
             cooling_rate |-> cooling_rate, cooling_interval |-> cooling_interval]
    /\ receiver = [frame_counter |-> 0, total_heat_added |-> 0,
                  heating_rate |-> heating_rate, heating_interval |-> heating_interval]
    /\ sim = [spawn_count |-> 0, max_spawn |-> 1, spawn_timer |-> 0,
              spawning_complete |-> FALSE, hotbin_timer |-> 0, coldbin_timer |-> 0,
              frame_counter |-> 0, running |-> FALSE]
    /\ zones = TRUE
    /\ pc = "idle"
    /\ cursor = NoCell
    /\ queue = <<>>
    /\ sweeps = 0
    /\ call = NoCall
    /\ relocated = {}

\* update_physics() is entered
SeparatorPhysicsBegin ==
    /\ pc = "idle"
    /\ sweeps < SeparatorTicks
    /\ pc' = "lift"
    /\ UNCHANGED <<width, height, relocated, gridVars, zoneVars, sim, zones, cursor, queue, sweeps, call>>

NextSeparator ==
    \/ SeparatorPhysicsBegin
    \/ LiftUpdate
    \/ SeparatorScan
    \/ SeparatorStep
    \/ PSGUpdate
    \/ ReceiverUpdate
    \/ ThermalLosses
    \/ GravityStep
    \/ GravityEnd

SpecSeparator == InitSeparator /\ [][NextSeparator]_vars

\* ------------------------------------------ one particle through the lift
\* a lone particle that gravity has just moved onto a cell of the entry strip,
\* the lift at any phase of its period, then update_physics() called
\* LiftTicks times
InitLift ==
    /\ width = grid_width
    /\ height = grid_height
    /\ \E x \in entry_x..(entry_x + shaft_width - 1) :
          /\ grid = (<<x, entry_y>> :> 1)
          /\ particles = <<NewParticle(x, entry_y)>>
    /\ psg_speed_counter = <<>>
    /\ hotbin_is_open = FALSE
    /\ coldbin_is_open \in BOOLEAN
    /\ \E fc \in 0..(lift_period - 1) :
          lift = [frame_counter |-> fc, particles_entered |-> 0, particles_exited |-> 0]
    /\ psg = [frame_counter |-> 0, total_heat_extracted |-> 0,
             cooling_rate |-> cooling_rate, cooling_interval |-> cooling_interval]
    /\ receiver = [frame_counter |-> 0, total_heat_added |-> 0,
                  heating_rate |-> heating_rate, heating_interval |-> heating_interval]
    /\ sim = [spawn_count |-> 0, max_spawn |-> 1, spawn_timer |-> 0,
              spawning_complete |-> FALSE, hotbin_timer |-> 0, coldbin_timer |-> 0,
              frame_counter |-> 0, running |-> FALSE]
    /\ zones = TRUE
    /\ pc = "idle"
    /\ cursor = NoCell
    /\ queue = <<>>
    /\ sweeps = 0
    /\ call = NoCall
    /\ relocated = {}

\* update_physics() is entered
LiftPhysicsBegin ==
    /\ pc = "idle"
    /\ sweeps < LiftTicks
    /\ pc' = "lift"
    /\ UNCHANGED <<width, height, relocated, gridVars, zoneVars, sim, zones, cursor, queue, sweeps, call>>

NextLift ==
    \/ LiftPhysicsBegin
    \/ LiftUpdate
    \/ SeparatorScan
    \/ SeparatorStep
    \/ PSGUpdate
    \/ ReceiverUpdate
    \/ ThermalLosses
    \/ GravityStep
    \/ GravityEnd

SpecLift == InitLift /\ [][NextLift]_vars

\* ------------------------------------- update_physics on a crowded lift
\* one to three particles on cells at the four hand-offs and at the exit of
\* the lift, the lift one or two calls before an active frame, then
\* update_physics() called on that state
InitCrowd ==
    /\ width = grid_width
    /\ height = grid_height
    /\ LET cb_end == cb_shaft_y + cb_shaft_height - 1
           hz_end == cb_hz_shaft_x + cb_hz_shaft_length - 1
           main_end == main_shaft_y + main_shaft_height - 1
           rcv_hz_end == rcv_hz_shaft_x + rcv_hz_shaft_length - 1
           rcv_vt_end == rcv_vt_shaft_y + rcv_vt_shaft_height - 1
           CrowdCells ==
              \* cb_vertical to cb_horizontal
              Box(cb_shaft_x, cb_shaft_x + 2, cb_end, cb_end + 1)
              \* cb_horizontal to main_vertical
              \cup Box(hz_end - 1, hz_end, cb_hz_shaft_y, cb_hz_shaft_y + 1)
              \cup Box(main_shaft_x, main_shaft_x + 1, main_end, main_end)
              \cup {<<main_shaft_x, main_end - 1>>}
              \* main_vertical to rcv_horizontal
              \cup Box(main_shaft_x, main_shaft_x + 1, main_shaft_y, main_shaft_y + 1)
              \cup Box(rcv_hz_end, rcv_hz_end, rcv_hz_shaft_y, rcv_hz_shaft_y + 1)
              \cup {<<rcv_hz_end - 1, rcv_hz_shaft_y>>}
              \* rcv_horizontal to rcv_vertical
              \cup Box(rcv_hz_shaft_x, rcv_hz_shaft_x + 1, rcv_hz_shaft_y, rcv_hz_shaft_y + 1)
              \cup Box(rcv_vt_shaft_x, rcv_vt_shaft_x + 1, rcv_vt_shaft_y, rcv_vt_shaft_y + 1)
              \* the exit of rcv_vertical and the row below it
              \cup Box(rcv_vt_shaft_x, rcv_vt_shaft_x + 2, rcv_vt_end - 1, rcv_vt_end)
              \cup Box(rcv_vt_shaft_x - 1, rcv_vt_shaft_x + 3, rcv_vt_end + 1, rcv_vt_end + 1)
              \* the last lane of the exit and the cell below it
              \cup Box(rcv_vt_shaft_x + shaft_width - 1, rcv_vt_shaft_x + shaft_width - 1,
                       rcv_vt_end, rcv_vt_end + 1)
              \* the way from the exit into the separator channel
              \cup Box(rcv_vt_shaft_x, rcv_vt_shaft_x, rcv_vt_end + 2, separator_y)
       IN \E c1 \in CrowdCells : \E c2 \in CrowdCells : \E c3 \in CrowdCells :
          LET S == {c1, c2, c3}
          IN /\ ScanOrder(S) = SubSeq(<<c1, c2, c3>>, 1, Cardinality(S))
             /\ grid = [c \in S |-> CHOOSE i \in 1..Len(ScanOrder(S)) : ScanOrder(S)[i] = c]
             /\ particles = [i \in 1..Cardinality(S) |->
                                NewParticle(ScanOrder(S)[i][1], ScanOrder(S)[i][2])]
    /\ psg_speed_counter = <<>>
    /\ hotbin_is_open = FALSE
    /\ coldbin_is_open = FALSE
    /\ \E fc \in {lift_period - 2, lift_period - 1} :
          lift = [frame_counter |-> fc, particles_entered |-> 0, particles_exited |-> 0]
    /\ psg = [frame_counter |-> 0, total_heat_extracted |-> 0,
             cooling_rate |-> cooling_rate, cooling_interval |-> cooling_interval]
    /\ receiver = [frame_counter |-> 0, total_heat_added |-> 0,
                  heating_rate |-> heating_rate, heating_interval |-> heating_interval]
    /\ sim = [spawn_count |-> 0, max_spawn |-> 1, spawn_timer |-> 0,
              spawning_complete |-> FALSE, hotbin_timer |-> 0, coldbin_timer |-> 0,
              frame_counter |-> 0, running |-> FALSE]
    /\ zones = TRUE
    /\ pc = "idle"
    /\ cursor = NoCell
    /\ queue = <<>>
    /\ sweeps = 0
    /\ call = NoCall
    /\ relocated = {}

SpecCrowd == InitCrowd /\ [][NextPhysics]_vars

\* --------------------------------------- a column of the lift that is full
\* one column of cb_vertical filled from its top row or from the row under it
\* down to the hand-off row, as the cold bin's opening feeds it while the lift
\* runs, with or without a particle travelling along cb_horizontal towards
\* the cell that column hands off to; the particles under the entry row have
\* been counted on entry, the one on the entry row has just fallen onto it;
\* one particle that has been through the lift is in the separator; then
\* update_physics() called QueueTicks times
InitQueue ==
    /\ width = grid_width
    /\ height = grid_height
    /\ \E x \in {cb_shaft_x + 1, cb_shaft_x + 2} : \E top \in {entry_y, entry_y + 1} :
       \E ahead \in BOOLEAN :
          LET S == Box(x, x, top, cb_shaft_y + cb_shaft_height - 1)
                   \cup (IF ahead THEN {<<x - 1, cb_hz_shaft_y>>} ELSE {})
                   \cup {<<distribution_start_x, separator_y>>}
          IN /\ grid = [c \in S |-> CHOOSE i \in 1..Len(ScanOrder(S)) : ScanOrder(S)[i] = c]
             /\ particles = [i \in 1..Cardinality(S) |->
                                NewParticle(ScanOrder(S)[i][1], ScanOrder(S)[i][2])]
             /\ \E fc \in 0..(lift_period - 1) :
                   lift = [frame_counter |-> fc,
                           particles_entered |-> Cardinality({c \in S : c[2] # entry_y}),
                           particles_exited |-> 1]
    /\ psg_speed_counter = <<>>
    /\ hotbin_is_open = FALSE
    /\ coldbin_is_open = FALSE
    /\ psg = [frame_counter |-> 0, total_heat_extracted |-> 0,
             cooling_rate |-> cooling_rate, cooling_interval |-> cooling_interval]
    /\ receiver = [frame_counter |-> 0, total_heat_added |-> 0,
                  heating_rate |-> heating_rate, heating_interval |-> heating_interval]
    /\ sim = [spawn_count |-> 0, max_spawn |-> 1, spawn_timer |-> 0,
              spawning_complete |-> FALSE, hotbin_timer |-> 0, coldbin_timer |-> 0,
              frame_counter |-> 0, running |-> FALSE]
    /\ zones = TRUE
    /\ pc = "idle"
    /\ cursor = NoCell
    /\ queue = <<>>
    /\ sweeps = 0
    /\ call = NoCall
    /\ relocated = {}

\* update_physics() is entered
QueuePhysicsBegin ==
    /\ pc = "idle"
    /\ sweeps < QueueTicks
    /\ pc' = "lift"
    /\ UNCHANGED <<width, height, relocated, gridVars, zoneVars, sim, zones, cursor, queue, sweeps, call>>

NextQueue ==
    \/ QueuePhysicsBegin
    \/ LiftUpdate
    \/ SeparatorScan
    \/ SeparatorStep
    \/ PSGUpdate
    \/ ReceiverUpdate
    \/ ThermalLosses
    \/ GravityStep
    \/ GravityEnd

SpecQueue == InitQueue /\ [][NextQueue]_vars

\* ------------------------------------ the slow-zone counters of the grid
\* calls a caller may make on one grid
SlowCalls == 7

\* one or two particles on the two rows at the PSG's upper edge and the two
\* rows at its lower edge, no counter entry yet; then update_particle and
\* remove_particle called on occupied cells, SlowCalls times in all
InitSlow ==
    /\ width = grid_width
    /\ height = grid_height
    /\ LET SlowCells == Box(psg_x, psg_x + 1, psg_y - 1, psg_y)
                            \cup Box(psg_x, psg_x + 1, psg_y + psg_height - 1,
                                     psg_y + psg_height)
       IN \E c1 \in SlowCells : \E c2 \in {NoCell} \cup (SlowCells \ {c1}) :
             IF c2 = NoCell
             THEN /\ grid = (c1 :> 1)
                  /\ particles = <<NewParticle(c1[1], c1[2])>>
             ELSE /\ grid = (c1 :> 1) @@ (c2 :> 2)
                  /\ particles = <<NewParticle(c1[1], c1[2]), NewParticle(c2[1], c2[2])>>
    /\ psg_speed_counter = <<>>
    /\ hotbin_is_open = FALSE
    /\ coldbin_is_open = FALSE
    /\ lift = [frame_counter |-> 0, particles_entered |-> 0, particles_exited |-> 0]
    /\ psg = [frame_counter |-> 0, total_heat_extracted |-> 0,
             cooling_rate |-> cooling_rate, cooling_interval |-> cooling_interval]
    /\ receiver = [frame_counter |-> 0, total_heat_added |-> 0,
                  heating_rate |-> heating_rate, heating_interval |-> heating_interval]
    /\ sim = [spawn_count |-> 0, max_spawn |-> 1, spawn_timer |-> 0,
              spawning_complete |-> FALSE, hotbin_timer |-> 0, coldbin_timer |-> 0,
              frame_counter |-> 0, running |-> FALSE]
    /\ zones = TRUE
    /\ pc = "idle"
    /\ cursor = NoCell
    /\ queue = <<>>
    /\ sweeps = 0
    /\ call = NoCall
    /\ relocated = {}

\* grid.update_particle(x, y, hotbin, coldbin, lift, separator, psg) on an
\* occupied cell
SlowUpdate ==
    /\ pc = "idle"
    /\ sweeps < SlowCalls
    /\ \E c \in DOMAIN grid : \E r \in update_particle(Here, c[1], c[2], zones) :
          /\ grid' = r[2].grid
          /\ particles' = r[2].particles
          /\ psg_speed_counter' = r[2].psg_speed_counter
          /\ call' = [NoCall EXCEPT !.op = "update_particle", !.x = c[1], !.y = c[2],
                                    !.ret = r[1]]
    /\ pc' = "called"
    /\ sweeps' = sweeps + 1
    /\ UNCHANGED <<width, height, relocated, zoneVars, sim, zones, cursor, queue>>

\* grid.remove_particle(x, y) on an occupied cell
SlowRemove ==
    /\ pc = "idle"
    /\ sweeps < SlowCalls
    /\ \E c \in DOMAIN grid :
          LET r == remove_particle(Here, c[1], c[2])
          IN /\ grid' = r[2].grid
             /\ psg_speed_counter' = r[2].psg_speed_counter
             /\ call' = [NoCall EXCEPT !.op = "remove", !.x = c[1], !.y = c[2],
                                       !.particle = r[1], !.ret = (r[1] # None)]
    /\ pc' = "called"
    /\ sweeps' = sweeps + 1
    /\ UNCHANGED <<width, height, relocated, particles, zoneVars, sim, zones, cursor, queue>>

NextSlow ==
    \/ SlowUpdate
    \/ SlowRemove
    \/ Return

SpecSlow == InitSlow /\ [][NextSlow]_vars

\* ================================================================ claims

\* C1: in every state of the simulation every particle constructed so far is
\* held by exactly one cell, every occupied cell lies in the grid and holds a
\* constructed particle, and no two particles claim the same cell by their
\* stored coordinates.
C1_ExclusiveOwnership ==
    /\ \A p \in 1..Len(particles) : Cardinality({c \in DOMAIN grid : grid[c] = p}) = 1
    /\ \A c \in DOMAIN grid : grid[c] \in 1..Len(particles) /\ is_valid_position(c[1], c[2])
    /\ \A p, q \in 1..Len(particles) :
          p # q => <<particles[p].x, particles[p].y>> # <<particles[q].x, particles[q].y>>

\* two particles, both carried through the lift and handed back to gravity
C1_Witness ==
    /\ pc = "idle"
    /\ Len(particles) >= 2
    /\ lift.particles_exited >= 2
    /\ C1_ExclusiveOwnership

\* C2: after every tick particles_entered - particles_exited equals the number
\* of particles whose cell lies inside a lift segment.
C2_LiftConservation ==
    pc = "idle" =>
        lift.particles_entered - lift.particles_exited
            = Cardinality({c \in DOMAIN grid : is_inside_lift(c[1], c[2])})

\* C3: particles_exited never exceeds particles_entered.
C3_InTransitNonNegative == lift.particles_exited <= lift.particles_entered

\* every particle that entered has left again
C3_Witness ==
    /\ lift.particles_exited >= 1
    /\ lift.particles_exited = lift.particles_entered

\* C4: after every tick the grid holds exactly the spawn_count particles
\* spawned so far, and a lift, separator or gravity step keeps every particle
\* in the grid exactly once, in its own cell when its position was not changed.
C4_Conservation ==
    /\ [](pc = "idle" => /\ Cardinality(DOMAIN grid) = sim.spawn_count
                         /\ {grid[c] : c \in DOMAIN grid} = 1..sim.spawn_count)
    /\ [][(pc \in {"lift", "separate", "gravity"} =>
            \A c \in DOMAIN grid :
               /\ Cardinality({d \in DOMAIN grid' : grid'[d] = grid[c]}) = 1
               /\ (particles'[grid[c]].x = c[1] /\ particles'[grid[c]].y = c[2])
                     => (c \in DOMAIN grid' /\ grid'[c] = grid[c]))]_vars

\* the gravity rule has just failed to move a particle, which is still there
C4_Witness ==
    /\ pc = "gravity"
    /\ call.op = "update_particle"
    /\ ~call.ret
    /\ <<call.x, call.y>> \in DOMAIN grid
    /\ sim.spawn_count >= 2
    /\ Cardinality(DOMAIN grid) = sim.spawn_count

\* C5: the particle stored in an occupied cell (x, y) has particle.x = x and
\* particle.y = y.
C5_CoordinatesMirrorCell ==
    \A c \in DOMAIN grid : particles[grid[c]].x = c[1] /\ particles[grid[c]].y = c[2]

\* a particle the lift has carried into the main shaft
C5_Witness ==
    \E c \in DOMAIN grid :
        /\ is_inside_main_vertical(c[1], c[2])
        /\ particles[grid[c]].x = c[1]
        /\ particles[grid[c]].y = c[2]

\* C6: move_particle returns True iff both cells are in bounds, the source is
\* occupied and the destination empty; then the source is empty, the
\* destination holds the same particle with its coordinates set to the
\* destination, and nothing else changed; otherwise nothing changed at all.
C6_MoveContract ==
    [][((pc = "idle" /\ call'.op = "move") =>
        LET f == <<call'.x, call'.y>>
            t == <<call'.to_x, call'.to_y>>
            ok == /\ 0 <= f[1] /\ f[1] < width /\ 0 <= f[2] /\ f[2] < height
                  /\ 0 <= t[1] /\ t[1] < width /\ 0 <= t[2] /\ t[2] < height
                  /\ f \in DOMAIN grid
                  /\ t \notin DOMAIN grid
        IN /\ call'.ret = ok
           /\ ok => /\ DOMAIN grid' = (DOMAIN grid \ {f}) \cup {t}
                    /\ grid'[t] = grid[f]
                    /\ \A c \in DOMAIN grid \ {f} : grid'[c] = grid[c]
                    /\ particles'[grid[f]].x = t[1]
                    /\ particles'[grid[f]].y = t[2]
                    /\ \A p \in (1..Len(particles)) \ {grid[f]} : particles'[p] = particles[p]
           /\ ~ok => (grid' = grid /\ particles' = particles))]_vars

\* a move that succeeded
C6_Witness ==
    /\ call.op = "move"
    /\ call.ret
    /\ <<call.to_x, call.to_y>> \in DOMAIN grid
    /\ <<call.x, call.y>> \notin DOMAIN grid

\* C7: move_particle(x, y, x, y) on an occupied cell returns False and leaves
\* the particle in cell (x, y), held by exactly one cell.
C7_NoOpMove ==
    [][((/\ pc = "idle"
        /\ call'.op = "move"
        /\ call'.x = call'.to_x
        /\ call'.y = call'.to_y
        /\ <<call'.x, call'.y>> \in DOMAIN grid) =>
        LET c == <<call'.x, call'.y>>
        IN /\ ~call'.ret
           /\ c \in DOMAIN grid'
           /\ grid'[c] = grid[c]
           /\ Cardinality({d \in DOMAIN grid' : grid'[d] = grid[c]}) = 1)]_vars

\* a no-op move on an occupied cell has returned
C7_Witness ==
    /\ call.op = "move"
    /\ call.x = call.to_x
    /\ call.y = call.to_y
    /\ <<call.x, call.y>> \in DOMAIN grid
    /\ ~call.ret

\* C8: place_particle returns False and changes nothing when the cell is out
\* of bounds or already occupied; it never overwrites a particle.
C8_PlaceContract ==
    [][((pc = "idle" /\ call'.op = "place") =>
        LET c == <<call'.x, call'.y>>
            refused == \/ ~(0 <= c[1] /\ c[1] < width /\ 0 <= c[2] /\ c[2] < height)
                       \/ c \in DOMAIN grid
        IN /\ refused => (~call'.ret /\ grid' = grid)
           /\ c \in DOMAIN grid => (c \in DOMAIN grid' /\ grid'[c] = grid[c]))]_vars

\* C9: update_particle on an occupied cell inside a lift segment or inside the
\* separator interior (called directly or by the sweep) returns False and
\* leaves every cell and every particle's coordinates as they were.
C9_GravityDefers ==
    [][((/\ pc \in {"idle", "gravity"}
        /\ call'.op = "update_particle"
        /\ (is_inside_lift(call'.x, call'.y) \/ separator_is_inside(call'.x, call'.y))) =>
        /\ ~call'.ret
        /\ grid' = grid
        /\ particles' = particles)]_vars

\* the rule was applied to a particle in the separator interior that has an
\* empty cell below it
C9_Witness ==
    /\ call.op = "update_particle"
    /\ separator_is_inside(call.x, call.y)
    /\ <<call.x, call.y>> \in DOMAIN grid
    /\ <<call.x, call.y + 1>> \notin DOMAIN grid
    /\ ~separator_is_wall(call.x, call.y + 1)

\* C10: with no zones, update_particle moves a particle whose cell below is in
\* bounds and empty exactly one row straight down; a lone particle placed on
\* the top row keeps its column, is on row min(k, height - 1) after k sweeps,
\* and so from (5, 0) in the 10 x 10 grid is at (5, 9) after 9 sweeps and later.
C10_FreeFall ==
    /\ [][((pc = "gravity" /\ pc' = "gravity") =>
            LET c == cursor'
            IN (c[2] + 1 < height /\ <<c[1], c[2] + 1>> \notin DOMAIN grid) =>
                  /\ call'.ret
                  /\ DOMAIN grid' = (DOMAIN grid \ {c}) \cup {<<c[1], c[2] + 1>>}
                  /\ grid'[<<c[1], c[2] + 1>>] = grid[c]
                  /\ \A d \in DOMAIN grid \ {c} : grid'[d] = grid[d])]_vars
    /\ [][(Len(particles) = 1 => particles'[1].x = particles[1].x)]_vars
    /\ []((pc = "idle" /\ Len(particles) = 1) =>
            /\ particles[1].y = Min(sweeps, height - 1)
            /\ grid = (<<particles[1].x, particles[1].y>> :> 1))

\* the lone particle of column 5 lies on the bottom row after more sweeps than
\* the grid has rows
C10_Witness ==
    /\ pc = "idle"
    /\ Len(particles) = 1
    /\ sweeps > height - 1
    /\ grid = (<<5, height - 1>> :> 1)

\* C11: update_particle on a cell the gravity rule applies to, whose cell below
\* is closed: with both diagonal cells open the particle ends in one of them and
\* either one can be the outcome; with exactly one open it ends there; with
\* none open it stays and the grid is unchanged; the particle's cell is always
\* inside the grid.
C11_DiagonalFall ==
    /\ [](\A c \in DOMAIN grid :
            LET x == c[1]
                y == c[2]
                open(tx) == /\ 0 <= tx /\ tx < width /\ y + 1 < height
                            /\ <<tx, y + 1>> \notin DOMAIN grid
                            /\ ZonesAllow(zones, tx, y + 1)
                ruled == ~(zones /\ (\/ psg_is_inside(x, y)
                                     \/ is_inside_lift(x, y)
                                     \/ separator_is_inside(x, y)))
            IN (ruled /\ ~open(x) /\ open(x - 1) /\ open(x + 1)) =>
                  \A d \in {-1, 1} :
                     \E r \in update_particle(Here, x, y, zones) :
                        /\ r[1]
                        /\ <<x + d, y + 1>> \in DOMAIN r[2].grid
                        /\ r[2].grid[<<x + d, y + 1>>] = grid[c])
    /\ [][((/\ pc \in {"idle", "gravity"}
            /\ call'.op = "update_particle"
            /\ <<call'.x, call'.y>> \in DOMAIN grid) =>
            LET x == call'.x
                y == call'.y
                p == grid[<<x, y>>]
                pos == <<particles'[p].x, particles'[p].y>>
                open(tx) == /\ 0 <= tx /\ tx < width /\ y + 1 < height
                            /\ <<tx, y + 1>> \notin DOMAIN grid
                            /\ ZonesAllow(zones, tx, y + 1)
                ruled == ~(zones /\ (\/ psg_is_inside(x, y)
                                     \/ is_inside_lift(x, y)
                                     \/ separator_is_inside(x, y)))
                diagonals == {<<x + d, y + 1>> : d \in {d \in {-1, 1} : open(x + d)}}
            IN (ruled /\ ~open(x)) =>
                  /\ pos \in (IF diagonals = {} THEN {<<x, y>>} ELSE diagonals)
                  /\ call'.ret = (diagonals # {})
                  /\ 0 <= pos[1] /\ pos[1] < width /\ 0 <= pos[2] /\ pos[2] < height
                  /\ grid' = [d \in (DOMAIN grid \ {<<x, y>>}) \cup {pos} |->
                                 IF d = pos THEN p ELSE grid[d]])]_vars

\* the rule has just moved a particle to its lower right although the lower
\* left was open as well
C11_Witness ==
    /\ call.op = "update_particle"
    /\ call.ret
    /\ <<call.x + 1, call.y + 1>> \in DOMAIN grid
    /\ <<call.x, call.y + 1>> \in DOMAIN grid
    /\ <<call.x - 1, call.y + 1>> \notin DOMAIN grid
    /\ call.x - 1 >= 0
    /\ ZonesAllow(zones, call.x - 1, call.y + 1)
    /\ particles[grid[<<call.x + 1, call.y + 1>>]].y = call.y + 1

\* C12: a particle that update_particle moves, straight down or diagonally,
\* ends in a cell that is not a wall of the hot bin, of the cold bin or of the
\* separator.
C12_NoFallIntoWall ==
    [][((/\ pc \in {"idle", "gravity"}
        /\ call'.op = "update_particle"
        /\ <<call'.x, call'.y>> \in DOMAIN grid) =>
        LET p == grid[<<call'.x, call'.y>>]
            tx == particles'[p].x
            ty == particles'[p].y
        IN (call'.ret \/ <<tx, ty>> # <<call'.x, call'.y>>) =>
              /\ <<tx, ty>> \in DOMAIN grid'
              /\ grid'[<<tx, ty>>] = p
              /\ ~hotbin_is_wall(tx, ty)
              /\ ~coldbin_is_wall(tx, ty)
              /\ ~separator_is_wall(tx, ty))]_vars

\* a particle above the hot bin's floor, next to the open floor segment, has
\* gone diagonally into the opening
C12_Witness ==
    /\ call.op = "update_particle"
    /\ call.ret
    /\ hotbin_is_open
    /\ hotbin_is_wall(call.x, call.y + 1)
    /\ \E d \in {-1, 1} :
          /\ <<call.x + d, call.y + 1>> \in DOMAIN grid
          /\ particles[grid[<<call.x + d, call.y + 1>>]].y = call.y + 1
          /\ call.y + 1 = hotbin_floor_y
          /\ <<call.x, call.y>> \notin DOMAIN grid

\* C13: a particle whose cell is outside the lift footprint gets into a lift
\* cell only by a step of the gravity rule, and then the cell has
\* y = cb_shaft_y and cb_shaft_x <= x < cb_shaft_x + shaft_width; the lift, the
\* separator and the other steps of update_physics never bring an outside
\* particle into a lift cell.
C13_LiftEntryOnlyAtStrip ==
    [][(\A c \in DOMAIN grid : \A d \in DOMAIN grid' :
          (/\ grid'[d] = grid[c]
           /\ ~is_inside_lift(c[1], c[2])
           /\ is_inside_lift(d[1], d[2])) =>
              /\ pc = "gravity"
              /\ call'.op = "update_particle"
              /\ <<call'.x, call'.y>> = c
              /\ d[2] = cb_shaft_y
              /\ cb_shaft_x <= d[1] /\ d[1] < cb_shaft_x + shaft_width)]_vars

\* the gravity rule has just brought a particle from outside onto the entry
\* strip
C13_Witness ==
    /\ pc = "gravity"
    /\ call.op = "update_particle"
    /\ call.ret
    /\ ~is_inside_lift(call.x, call.y)
    /\ \E d \in DOMAIN grid :
          /\ d[2] = call.y + 1
          /\ d[1] \in {call.x - 1, call.x, call.x + 1}
          /\ is_inside_lift(d[1], d[2])
          /\ <<call.x, call.y>> \notin DOMAIN grid

\* the sum over the particles of S of the temperature in qs minus that in ps
RECURSIVE TemperatureGain(_, _, _)
TemperatureGain(S, ps, qs) ==
    IF S = {} THEN 0
    ELSE LET p == CHOOSE p \in S : TRUE
         IN qs[p].temperature - ps[p].temperature + TemperatureGain(S \ {p}, ps, qs)

\* C14: on a heating tick of update_particles_in_receiver every particle in a
\* receiver cell gets temperature' = min(max_temperature, temperature +
\* heating_rate), the other particles keep theirs, and total_heat_added grows
\* by exactly the sum of temperature' - temperature.
C14_ReceiverHeating ==
    [][((/\ pc = "receiver"
        /\ (receiver.frame_counter + 1) % receiver.heating_interval = 0) =>
        /\ \A c \in DOMAIN grid :
              particles'[grid[c]].temperature =
                 IF receiver_is_inside(c[1], c[2])
                 THEN Min(max_temperature, particles[grid[c]].temperature + receiver.heating_rate)
                 ELSE particles[grid[c]].temperature
        /\ receiver'.total_heat_added - receiver.total_heat_added =
              TemperatureGain({grid[c] : c \in {c \in DOMAIN grid : receiver_is_inside(c[1], c[2])}},
                              particles, particles'))]_vars

\* heating_rate 50: a lone particle that came in at 480 is at 500 and 20 were
\* booked
C14_Witness ==
    /\ pc = "thermal"
    /\ receiver.heating_rate = 50
    /\ receiver.total_heat_added = 20
    /\ Cardinality(DOMAIN grid) = 1
    /\ \E c \in DOMAIN grid :
          /\ receiver_is_inside(c[1], c[2])
          /\ particles[grid[c]].temperature = 500

\* C15: on a cooling tick of update_particles_in_psg every particle in a PSG
\* cell gets temperature' = max(0, temperature - cooling_rate), the particles
\* outside the PSG keep theirs, and total_heat_extracted grows by exactly the
\* sum of temperature - temperature'.
C15_PSGCooling ==
    [][((/\ pc = "separate"
        /\ pc' = "receiver"
        /\ (psg.frame_counter + 1) % psg.cooling_interval = 0) =>
        /\ \A c \in DOMAIN grid :
              particles'[grid[c]].temperature =
                 IF psg_is_inside(c[1], c[2])
                 THEN Max(0, particles[grid[c]].temperature - psg.cooling_rate)
                 ELSE particles[grid[c]].temperature
        /\ psg'.total_heat_extracted - psg.total_heat_extracted =
              TemperatureGain({grid[c] : c \in {c \in DOMAIN grid : psg_is_inside(c[1], c[2])}},
                              particles', particles))]_vars

\* a particle that came into the PSG at 10 is at 0 and 10 were booked, next to
\* a warm particle outside the PSG
C15_Witness ==
    /\ pc = "receiver"
    /\ psg.total_heat_extracted = 10
    /\ \E c \in DOMAIN grid : \E d \in DOMAIN grid :
          /\ psg_is_inside(c[1], c[2])
          /\ particles[grid[c]].temperature = 0
          /\ ~psg_is_inside(d[1], d[2])
          /\ particles[grid[d]].temperature = max_temperature

\* C16: in every reachable state every particle's temperature lies in
\* 0..max_temperature, whatever heating, cooling and thermal loss was applied.
C16_TemperatureInRange ==
    \A i \in DOMAIN particles :
       /\ particles[i].temperature >= 0
       /\ particles[i].temperature <= max_temperature

\* after receiver, PSG and thermal losses of one tick: the receiver capped a
\* particle (480 -> 500 booked 20) and the PSG floored another (10 -> 0
\* booked 10)
C16_Witness ==
    /\ pc = "gravity"
    /\ receiver.total_heat_added = max_temperature - (max_temperature - 20)
    /\ psg.total_heat_extracted = 10
    /\ \E i \in DOMAIN particles : particles[i].temperature = 0
    /\ \E i \in DOMAIN particles : particles[i].temperature = max_temperature

\* C17: an update_particle call on the cell directly above a column of the
\* hot bin's floor opening leaves the particle where it is while the bin is
\* closed; while the bin is open, and the opening cell is empty, it moves the
\* particle straight down into the opening cell.
C17_HotBinFloor ==
    [][((/\ pc \in {"idle", "gravity"}
        /\ call'.op = "update_particle"
        /\ call'.y = hotbin_floor_y - 1
        /\ call'.x \in hotbin_opening_start_x..(hotbin_opening_end_x - 1)) =>
        IF ~hotbin_is_open
        THEN /\ ~call'.ret
             /\ grid' = grid
             /\ particles' = particles
        ELSE <<call'.x, hotbin_floor_y>> \notin DOMAIN grid =>
                /\ call'.ret
                /\ <<call'.x, call'.y>> \notin DOMAIN grid'
                /\ <<call'.x, hotbin_floor_y>> \in DOMAIN grid'
                /\ grid'[<<call'.x, hotbin_floor_y>>] = grid[<<call'.x, call'.y>>]
                /\ particles'[grid[<<call'.x, call'.y>>]].x = call'.x
                /\ particles'[grid[<<call'.x, call'.y>>]].y = hotbin_floor_y)]_vars

\* the first frame at which the bin is open: the particle that rested above
\* the opening while the bin was closed has just been moved into the opening
C17_Witness ==
    /\ pc = "gravity"
    /\ sim.hotbin_timer = hotbin_cycle_duration
    /\ hotbin_is_open
    /\ call.op = "update_particle"
    /\ call.ret
    /\ call.y = hotbin_floor_y - 1
    /\ call.x \in hotbin_opening_start_x..(hotbin_opening_end_x - 1)
    /\ <<call.x, hotbin_floor_y>> \in DOMAIN grid

\* C18: when update_particles_in_separator processes a resident while some
\* cell of the exit row (y = separator.y + height, x in the distribution
\* range) is free, the particle is moved to one such free cell and its
\* original cell is left empty; and every free cell of the exit row is a
\* possible destination.
C18_SeparatorRelocates ==
    /\ [](pc = "separate" /\ queue # <<>> =>
            \A x \in distribution_start_x..(distribution_end_x - 1) :
               <<x, separator_y + separator_height>> \notin DOMAIN grid =>
                  ENABLED (SeparatorStep /\ <<x, separator_y + separator_height>> \in DOMAIN grid'))
    /\ [][((/\ pc = "separate"
            /\ queue # <<>>
            /\ \E x \in distribution_start_x..(distribution_end_x - 1) :
                  <<x, separator_y + separator_height>> \notin DOMAIN grid) =>
            \E x \in distribution_start_x..(distribution_end_x - 1) :
               LET from == <<Head(queue).x, Head(queue).y>>
                   to == <<x, separator_y + separator_height>>
               IN /\ to \notin DOMAIN grid
                  /\ from \notin DOMAIN grid'
                  /\ DOMAIN grid' = (DOMAIN grid \ {from}) \cup {to}
                  /\ grid'[to] = grid[from]
                  /\ \A c \in DOMAIN grid \ {from} : grid'[c] = grid[c]
                  /\ particles'[grid[from]].x = to[1]
                  /\ particles'[grid[from]].y = to[2])]_vars

\* the only particle, a resident of the channel, has been moved to the last
\* column of the exit row although every other column was free as well
C18_Witness ==
    /\ pc = "separate"
    /\ queue = <<>>
    /\ sweeps = 0
    /\ DOMAIN grid = {<<distribution_end_x - 1, separator_y + separator_height>>}
    /\ particles[grid[<<distribution_end_x - 1, separator_y + separator_height>>]].x = distribution_end_x - 1
    /\ particles[grid[<<distribution_end_x - 1, separator_y + separator_height>>]].y = separator_y + separator_height

\* C19: every update queues every particle inside the separator; a queued
\* resident is taken out of its cell when at least one cell of the exit row is
\* free at the moment it is processed, and when none is free the grid and the
\* particles stay as they are, so that the resident is relocated by the first
\* later update that finds an exit cell free.
C19_NeverStranded ==
    [][(/\ pc = "separator" =>
              \A c \in DOMAIN grid :
                 separator_is_inside(c[1], c[2]) =>
                    \E i \in DOMAIN queue' :
                       queue'[i] = [x |-> c[1], y |-> c[2], particle |-> grid[c]]
        /\ (pc = "separate" /\ queue # <<>>) =>
              IF ((distribution_start_x..(distribution_end_x - 1)) \X {exit_y}) \subseteq DOMAIN grid
              THEN grid' = grid /\ particles' = particles
              ELSE /\ <<Head(queue).x, Head(queue).y>> \in DOMAIN grid
                   /\ <<Head(queue).x, Head(queue).y>> \notin DOMAIN grid'
                   /\ particles'[Head(queue).particle].y = exit_y)]_vars

\* nine particles, the second update: the resident that found all eight exit
\* cells taken in the first update has been moved to the exit row now that
\* the eight have fallen one row
C19_Witness ==
    /\ pc = "separate"
    /\ queue = <<>>
    /\ sweeps = 1
    /\ Cardinality(DOMAIN grid) = distribution_width + 1
    /\ \A x \in distribution_start_x..(distribution_end_x - 1) : <<x, exit_y + 1>> \in DOMAIN grid
    /\ \E x \in distribution_start_x..(distribution_end_x - 1) : <<x, exit_y>> \in DOMAIN grid

\* the cells of the five segments along the direction of travel
PathLength ==
    cb_shaft_height + cb_hz_shaft_length + main_shaft_height
        + rcv_hz_shaft_length + rcv_vt_shaft_height

\* C20: a lone particle that has entered the lift at the entry strip is
\* outside the lift footprint once PathLength * lift_period calls of
\* update_physics() have returned, and particles_exited is 0 while it is in
\* the lift and 1 from the moment it has left it.
C20_LiftPassage ==
    \A c \in DOMAIN grid :
       /\ lift.particles_exited = (IF is_inside_lift(c[1], c[2]) THEN 0 ELSE 1)
       /\ sweeps >= PathLength * lift_period => ~is_inside_lift(c[1], c[2])

\* the longest passage: the lift update of the last tick within the bound has
\* put the particle on the cell below the receiver shaft and counted one exit
C20_Witness ==
    /\ pc = "separator"
    /\ sweeps = PathLength * lift_period - 1
    /\ lift.particles_exited = 1
    /\ <<rcv_vt_shaft_x, rcv_vt_shaft_y + rcv_vt_shaft_height>> \in DOMAIN grid

\* C21: within one update_physics() a particle that the lift update or the
\* separator update has moved is not moved by the gravity sweep as well: the
\* update_particle call on the cell of such a particle returns False.
C21_OneRelocationPerTick ==
    [][((/\ pc = "gravity"
        /\ call'.op = "update_particle"
        /\ cursor' \in DOMAIN grid
        /\ grid[cursor'] \in relocated) =>
        /\ ~call'.ret
        /\ grid' = grid)]_vars

\* the across-shaft offset of a cell of a segment, as _get_next_positions
\* takes it when the particle leaves the segment (relative_x in the vertical
\* segments, relative_y in the horizontal ones)
LaneOffset(x, y, segment_name) ==
    IF segment_name = "cb_vertical" THEN x - cb_shaft_x
    ELSE IF segment_name = "cb_horizontal" THEN y - cb_hz_shaft_y
    ELSE IF segment_name = "main_vertical" THEN x - main_shaft_x
    ELSE IF segment_name = "rcv_horizontal" THEN y - rcv_hz_shaft_y
    ELSE x - rcv_vt_shaft_x

\* C22: a lift update that takes a particle from one segment into the next
\* keeps its across-shaft lane offset: the offset in the segment it leaves
\* is its offset in the segment it enters.
C22_LanePreserved ==
    [][(pc = "lift" =>
          \A i \in DOMAIN particles :
             (/\ SegmentOf(particles[i].x, particles[i].y) # "none"
              /\ SegmentOf(particles'[i].x, particles'[i].y) # "none"
              /\ SegmentOf(particles'[i].x, particles'[i].y) # SegmentOf(particles[i].x, particles[i].y)) =>
                LaneOffset(particles'[i].x, particles'[i].y, SegmentOf(particles'[i].x, particles'[i].y))
                   = LaneOffset(particles[i].x, particles[i].y, SegmentOf(particles[i].x, particles[i].y)))]_vars

\* C23: an update of the lift raises particles_exited by exactly the number
\* of particles it has moved from a lift cell to a cell outside all lift
\* segments; moves that end inside the lift and particles that stay count
\* nothing.
C23_ExitCount ==
    [][(pc = "lift" =>
          lift'.particles_exited - lift.particles_exited =
             Cardinality({i \in DOMAIN particles :
                             /\ is_inside_lift(particles[i].x, particles[i].y)
                             /\ ~is_inside_lift(particles'[i].x, particles'[i].y)}))]_vars

\* one update has taken the particle of the first lane out by a lateral nudge
\* to the left of the shaft, past the particle lying below it, and the
\* particle of the second lane out by the primary exit
C23_Witness ==
    /\ pc = "separator"
    /\ lift.particles_exited = 2
    /\ DOMAIN grid = Box(rcv_vt_shaft_x - 1, rcv_vt_shaft_x + 1,
                         rcv_vt_shaft_y + rcv_vt_shaft_height, rcv_vt_shaft_y + rcv_vt_shaft_height)
    /\ relocated = {grid[<<rcv_vt_shaft_x - 1, rcv_vt_shaft_y + rcv_vt_shaft_height>>],
                    grid[<<rcv_vt_shaft_x + 1, rcv_vt_shaft_y + rcv_vt_shaft_height>>]}

\* C24: no particle ever becomes permanently stuck. A particle that lies
\* outside the receiver, the lift and the separator channel on a cell whose
\* three cells below are parts of the hot bin floor that never open can never
\* move again and never returns to the receiver; the claim excludes every
\* such state.
C24_NeverStuck ==
    \A c \in DOMAIN grid :
       ~(/\ ~receiver_is_inside(c[1], c[2])
         /\ ~is_inside_lift(c[1], c[2])
         /\ ~separator_is_inside(c[1], c[2])
         /\ c[2] + 1 = hotbin_floor_y
         /\ \A d \in {-1, 0, 1} :
               /\ hotbin_x <= c[1] + d /\ c[1] + d < hotbin_x + hotbin_width
               /\ ~(hotbin_opening_start_x <= c[1] + d /\ c[1] + d < hotbin_opening_end_x))

\* C25: a step of the gravity sweep examines one occupied cell; when it moves
\* the particle, the particle goes down by exactly one row onto a cell the
\* sweep has already passed, and the cells the sweep has still to reach are
\* cells it had still to reach before, with the same particles: no particle
\* is examined a second time, so the sweep lowers a particle by at most one
\* row.
C25_MovedOncePerSweep ==
    [][((pc = "gravity" /\ pc' = "gravity") =>
          /\ cursor' \in SweepRest(grid, cursor)
          /\ SweepRest(grid', cursor') \subseteq SweepRest(grid, cursor) \ {cursor'}
          /\ \A e \in SweepRest(grid', cursor') : grid'[e] = grid[e]
          /\ \A i \in DOMAIN particles :
                IF i = grid[cursor'] /\ call'.ret
                THEN /\ particles'[i].y = particles[i].y + 1
                     /\ grid'[<<particles'[i].x, particles'[i].y>>] = i
                     /\ <<particles'[i].x, particles'[i].y>> \notin SweepRest(grid', cursor')
                ELSE /\ particles'[i].y = particles[i].y
                     /\ particles'[i].x = particles[i].x)]_vars

\* a particle has just been moved out of the examined cell onto the row below,
\* where it lies beside another particle, while the sweep has occupied cells
\* still to reach
C25_Witness ==
    /\ pc = "gravity"
    /\ call.op = "update_particle"
    /\ call.ret
    /\ <<call.x, call.y + 1>> \in DOMAIN grid
    /\ \E d \in {-1, 1} : <<call.x + d, call.y + 1>> \in DOMAIN grid
    /\ <<call.x, call.y>> \notin DOMAIN grid
    /\ SweepRest(grid, cursor) # {}

\* C26: every update_particle call on a particle inside the PSG raises its
\* psg_speed_counter entry by one (starting from 0) and moves the particle
\* only when the new count is a multiple of slow_factor; a lone particle in
\* the PSG is therefore, between ticks, one row further down for every
\* slow_factor checks it has had there.
C26_PSGSlow ==
    /\ [][((/\ pc = "gravity"
            /\ pc' = "gravity"
            /\ psg_is_inside(cursor'[1], cursor'[2])) =>
            LET p == grid[cursor']
                n == (IF p \in DOMAIN psg_speed_counter THEN psg_speed_counter[p] ELSE 0) + 1
            IN /\ p \in DOMAIN psg_speed_counter'
               /\ psg_speed_counter'[p] = n
               /\ n % slow_factor # 0 =>
                     /\ ~call'.ret
                     /\ grid' = grid
                     /\ particles' = particles)]_vars
    /\ []((pc = "idle" /\ Len(particles) = 1 /\ psg_is_inside(particles[1].x, particles[1].y)) =>
            particles[1].y = psg_y +
               (IF 1 \in DOMAIN psg_speed_counter THEN psg_speed_counter[1] ELSE 0) \div slow_factor)

\* the tenth check of a particle in the PSG has just moved it to the third row
C26_Witness ==
    /\ pc = "gravity"
    /\ call.op = "update_particle"
    /\ call.ret
    /\ psg_is_inside(call.x, call.y)
    /\ call.y = psg_y + 1
    /\ <<call.x, call.y + 1>> \in DOMAIN grid
    /\ grid[<<call.x, call.y + 1>>] \in DOMAIN psg_speed_counter
    /\ psg_speed_counter[grid[<<call.x, call.y + 1>>]] = 2 * slow_factor

\* C27: every call of update_particles_in_lift raises frame_counter by one; a
\* call that does not bring it to a multiple of max(1, int(1 / 0.3)) = 3 moves
\* no particle and leaves particles_entered and particles_exited alone, and a
\* call that does moves a lone particle that is inside the lift.
C27_LiftThrottle ==
    [][(pc = "lift" =>
          /\ lift'.frame_counter = lift.frame_counter + 1
          /\ (lift.frame_counter + 1) % 3 # 0 =>
                /\ grid' = grid
                /\ particles' = particles
                /\ lift'.particles_entered = lift.particles_entered
                /\ lift'.particles_exited = lift.particles_exited
          /\ ((lift.frame_counter + 1) % 3 = 0
               /\ Len(particles) = 1
               /\ is_inside_lift(particles[1].x, particles[1].y)) =>
                <<particles'[1].x, particles'[1].y>> # <<particles[1].x, particles[1].y>>)]_vars

\* the particle is half way up the main shaft and the lift has just let a
\* call pass without moving it
C27_Witness ==
    /\ pc = "separator"
    /\ lift.frame_counter % 3 = 1
    /\ relocated = {}
    /\ \E c \in DOMAIN grid :
          /\ is_inside_main_vertical(c[1], c[2])
          /\ c[2] = main_shaft_y + main_shaft_height \div 2

\* C28: in an active lift update, a lift particle A whose primary next cell
\* holds, at the start of the update, a lift particle B that moves during the
\* update, moves into that cell in the same update.
C28_FollowsIntoVacatedCell ==
    [][((pc = "lift" /\ (lift.frame_counter + 1) % lift_period = 0) =>
          \A a \in DOMAIN particles : \A b \in DOMAIN particles :
             (/\ is_inside_lift(particles[a].x, particles[a].y)
              /\ is_inside_lift(particles[b].x, particles[b].y)
              /\ get_next_positions(particles[a].x, particles[a].y,
                                    SegmentOf(particles[a].x, particles[a].y))[1]
                    = <<particles[b].x, particles[b].y>>
              /\ <<particles'[b].x, particles'[b].y>> # <<particles[b].x, particles[b].y>>) =>
                <<particles'[a].x, particles'[a].y>> = <<particles[b].x, particles[b].y>>)]_vars

\* the lane entry cells of the segment that follows segment_name: the cells
\* _get_next_positions lists as alternate positions
AlternateLanes(segment_name) ==
    IF segment_name = "cb_vertical"
    THEN {<<cb_hz_shaft_x + offset, cb_hz_shaft_y>> :
             offset \in 0..(Min(cb_hz_shaft_length, shaft_width) - 1)}
    ELSE IF segment_name = "cb_horizontal"
    THEN {<<main_shaft_x + offset, main_shaft_y + main_shaft_height - 1>> :
             offset \in 0..(shaft_width - 1)}
    ELSE IF segment_name = "main_vertical"
    THEN {<<rcv_hz_shaft_x + rcv_hz_shaft_length - 1, rcv_hz_shaft_y + offset>> :
             offset \in 0..(shaft_width - 1)}
    ELSE IF segment_name = "rcv_horizontal"
    THEN {<<rcv_vt_shaft_x + offset, rcv_vt_shaft_y>> : offset \in 0..(shaft_width - 1)}
    ELSE {}

\* C29: in an active lift update a particle at the end of a segment whose
\* primary hand-off cell is taken moves into an alternate lane entry cell of
\* the next segment when one is free: it does not stay where it is while a
\* lane entry cell is empty before and after the update.
C29_AlternateLaneTaken ==
    [][((pc = "lift" /\ (lift.frame_counter + 1) % lift_period = 0) =>
          \A a \in DOMAIN particles :
             LET seg == SegmentOf(particles[a].x, particles[a].y)
             IN (/\ seg \in {"cb_vertical", "cb_horizontal", "main_vertical", "rcv_horizontal"}
                 /\ get_next_positions(particles[a].x, particles[a].y, seg)[1] \in AlternateLanes(seg)
                 /\ \E c \in AlternateLanes(seg) : c \notin DOMAIN grid /\ c \notin DOMAIN grid') =>
                   <<particles'[a].x, particles'[a].y>> # <<particles[a].x, particles[a].y>>)]_vars

\* C30: in an active lift update a particle on the last row of rcv_vertical
\* whose cell below is taken goes to (x - 1, y + 1) when that cell is in
\* bounds, outside the lift, empty and not taken by a particle processed
\* before it, else to (x + 1, y + 1) when that cell is in bounds, outside the
\* lift and empty, and else stays; and every particle the update takes out
\* of the lift leaves from the last row of rcv_vertical to the row below, at
\* most one column aside, and aside only when the cell below it is taken.
C30_LateralNudge ==
    [][((pc = "lift" /\ (lift.frame_counter + 1) % lift_period = 0) =>
          \A a \in DOMAIN particles :
             LET x == particles[a].x
                 y == particles[a].y
                 to == <<particles'[a].x, particles'[a].y>>
                 below_taken == \/ <<x, y + 1>> \in DOMAIN grid
                                \/ (<<x, y + 1>> \in DOMAIN grid' /\ grid'[<<x, y + 1>>] # a)
                 left_free == /\ is_valid_position(x - 1, y + 1)
                              /\ ~is_inside_lift(x - 1, y + 1)
                              /\ <<x - 1, y + 1>> \notin DOMAIN grid
                              /\ (<<x - 1, y + 1>> \in DOMAIN grid' => grid'[<<x - 1, y + 1>>] = a)
                 right_free == /\ is_valid_position(x + 1, y + 1)
                               /\ ~is_inside_lift(x + 1, y + 1)
                               /\ <<x + 1, y + 1>> \notin DOMAIN grid
             IN /\ (/\ is_inside_rcv_vertical(x, y)
                     /\ y = rcv_vt_shaft_y + rcv_vt_shaft_height - 1
                     /\ below_taken) =>
                       to = IF left_free THEN <<x - 1, y + 1>>
                            ELSE IF right_free THEN <<x + 1, y + 1>>
                            ELSE <<x, y>>
                /\ (is_inside_lift(x, y) /\ ~is_inside_lift(to[1], to[2])) =>
                       /\ is_inside_rcv_vertical(x, y)
                       /\ y = rcv_vt_shaft_y + rcv_vt_shaft_height - 1
                       /\ to[2] = y + 1
                       /\ to[1] \in {x - 1, x, x + 1}
                       /\ to[1] # x => below_taken)]_vars

\* the particle of the last lane has been nudged to the right, out of the
\* columns of the shaft: the cell below it and the cell to the left of that
\* one were taken, and both of those particles are where they were
C30_Witness ==
    LET last == rcv_vt_shaft_x + shaft_width - 1
        row == rcv_vt_shaft_y + rcv_vt_shaft_height
    IN /\ pc = "separator"
       /\ lift.particles_exited = 1
       /\ DOMAIN grid = Box(last - 1, last + 1, row, row)
       /\ relocated = {grid[<<last + 1, row>>]}

\* C31: particles_entered counts each passage once: the entries counted and
\* not yet counted out never outnumber the particles that are inside the
\* lift, also while a particle waits on the entry row over several active
\* updates of the lift.
C31_CountedOnce ==
    lift.particles_entered - lift.particles_exited
        <= Cardinality({c \in DOMAIN grid : is_inside_lift(c[1], c[2])})

\* C32: an update of the lift takes every particle at most one step: a
\* particle that is on another cell afterwards was inside the lift and is on
\* the cell its own segment maps its old cell to, or was on the last row of
\* rcv_vertical and is on one of the exit cells of its old cell; a particle
\* handed to the next segment is therefore on that segment's first cell.
C32_OneStepPerUpdate ==
    [][(pc = "lift" =>
          \A i \in DOMAIN particles :
             LET x == particles[i].x
                 y == particles[i].y
                 to == <<particles'[i].x, particles'[i].y>>
             IN to # <<x, y>> =>
                  /\ is_inside_lift(x, y)
                  /\ \/ to = get_next_positions(x, y, SegmentOf(x, y))[1]
                     \/ /\ is_inside_rcv_vertical(x, y)
                        /\ y = rcv_vt_shaft_y + rcv_vt_shaft_height - 1
                        /\ to \in {get_exit_positions(x, y)[k] : k \in 1..3})]_vars

\* the lift has just handed a particle from the first lane of cb_vertical to
\* the first cell of cb_horizontal, where it stays for the rest of the update
C32_Witness ==
    /\ pc = "separator"
    /\ \E i \in relocated :
          <<particles[i].x, particles[i].y>> = <<cb_hz_shaft_x, cb_hz_shaft_y>>

\* C33: in every step a particle that is inside the lift stays in its
\* segment or goes to the one that follows it in the order cb_vertical,
\* cb_horizontal, main_vertical, rcv_horizontal, rcv_vertical, outside: it
\* never goes back, never skips a segment and leaves the lift only from
\* rcv_vertical.
C33_FlowOrder ==
    [][(\A i \in DOMAIN particles :
          LET Rank(x, y) == IF is_inside_cb_vertical(x, y) THEN 1
                            ELSE IF is_inside_cb_horizontal(x, y) THEN 2
                            ELSE IF is_inside_main_vertical(x, y) THEN 3
                            ELSE IF is_inside_rcv_horizontal(x, y) THEN 4
                            ELSE IF is_inside_rcv_vertical(x, y) THEN 5
                            ELSE 6
              from == Rank(particles[i].x, particles[i].y)
              to == Rank(particles'[i].x, particles'[i].y)
          IN from < 6 => to \in {from, from + 1})]_vars

\* the lift has just handed the particle from rcv_horizontal to the top row
\* of rcv_vertical, after it has come through the three segments before
C33_Witness ==
    /\ pc = "separator"
    /\ lift.particles_entered = 1
    /\ lift.particles_exited = 0
    /\ \E i \in relocated :
          /\ is_inside_rcv_vertical(particles[i].x, particles[i].y)
          /\ particles[i].y = rcv_vt_shaft_y

C35_SpawnRule ==
    /\ [](/\ sim.spawn_count <= sim.max_spawn
          /\ sim.spawn_count = Len(particles)
          /\ 3 * sim.spawn_count <= sim.frame_counter + 2
          /\ sim.spawning_complete <=> (sim.spawn_count = sim.max_spawn))
    /\ [][(/\ sim'.spawn_count \in {sim.spawn_count, sim.spawn_count + 1}
           /\ sim'.spawn_count = sim.spawn_count + 1 =>
                 /\ sim'.frame_counter = sim.frame_counter + 1
                 /\ <<spawn_x, spawn_y>> \notin DOMAIN grid
                 /\ sim.spawn_count < sim.max_spawn
                 /\ sim.spawn_timer <= 1
                 /\ sim'.spawn_timer = 3
                 /\ <<spawn_x, spawn_y>> \in DOMAIN grid'
                 /\ grid'[<<spawn_x, spawn_y>>] = Len(particles')
                 /\ Len(particles') = Len(particles) + 1
           /\ (sim'.frame_counter = sim.frame_counter + 1 /\ sim'.spawn_count = sim.spawn_count) =>
                 sim'.spawn_timer = IF sim.spawn_timer > 0 THEN sim.spawn_timer - 1 ELSE 0
           /\ sim'.frame_counter = sim.frame_counter => sim'.spawn_timer = sim.spawn_timer
           /\ sim.spawning_complete => sim'.spawning_complete)]_vars

\* the third particle of a simulation with max_spawn = 3 has just been
\* spawned, in the seventh update, and spawning is complete
C35_Witness ==
    /\ pc = "lift"
    /\ sim.max_spawn = 3
    /\ sim.spawn_count = 3
    /\ sim.frame_counter = 7
    /\ sim.spawn_timer = spawn_delay
    /\ sim.spawning_complete
    /\ <<spawn_x, spawn_y>> \in DOMAIN grid

C37_ThermalLoss ==
    /\ [](\A i \in DOMAIN particles :
             particles[i].last_thermal_loss_frame <= sim.frame_counter)
    /\ [][(\A i \in DOMAIN particles :
             LET x == particles[i].x
                 y == particles[i].y
                 rate == IF \/ is_inside_lift(x, y) \/ hotbin_is_inside(x, y)
                            \/ coldbin_is_inside(x, y) \/ psg_is_inside(x, y)
                         THEN 5 ELSE 0
             IN IF pc = "thermal"
                THEN IF sim.frame_counter - particles[i].last_thermal_loss_frame >= 10
                     THEN /\ particles'[i].temperature = Max(0, particles[i].temperature - rate)
                          /\ particles'[i].last_thermal_loss_frame = sim.frame_counter
                     ELSE particles'[i] = particles[i]
                ELSE particles'[i].last_thermal_loss_frame
                        = particles[i].last_thermal_loss_frame)]_vars

\* the thermal loss step has just taken 5 off a particle that lies in the
\* hot bin at full temperature
C37_Witness ==
    /\ pc = "gravity"
    /\ cursor = NoCell
    /\ \E i \in DOMAIN particles :
          /\ hotbin_is_inside(particles[i].x, particles[i].y)
          /\ particles[i].last_thermal_loss_frame = sim.frame_counter
          /\ particles[i].temperature = max_temperature - 5

\* C38: whenever the hot bin is closed, no particle occupies a cell for which
\* hotbin.is_wall is true; in particular, before the update whose timer step
\* closes the bin (the timer stands at twice the cycle duration minus one),
\* no particle is in a cell of the floor opening.
C38_ClosedBinClear ==
    /\ ~hotbin_is_open =>
          \A c \in DOMAIN grid : ~hotbin_is_wall(c[1], c[2])
    /\ (pc = "idle" /\ sim.hotbin_timer = 2 * hotbin_cycle_duration - 1) =>
          \A x \in hotbin_opening_start_x..(hotbin_opening_end_x - 1) :
             <<x, hotbin_floor_y>> \notin DOMAIN grid

\* after the bin has closed again, a particle that came back through the lift
\* rests directly above a cell of the floor opening and the gravity rule has
\* just left it there
C38_Witness ==
    /\ pc = "gravity"
    /\ sim.frame_counter > 2 * hotbin_cycle_duration
    /\ ~hotbin_is_open
    /\ call.op = "update_particle"
    /\ ~call.ret
    /\ call.y = hotbin_floor_y - 1
    /\ call.x \in hotbin_opening_start_x..(hotbin_opening_end_x - 1)
    /\ <<call.x, call.y>> \in DOMAIN grid
    /\ lift.particles_exited >= 1

\* C39: the slow-zone counter map holds no stale entries. Every entry belongs
\* to a particle that is in the grid and counts at least 1; remove_particle on
\* an occupied cell deletes the removed particle's entry and no other; an
\* update_particle call that examines a particle at a cell outside the PSG
\* leaves it without an entry, and one that examines it at a cell inside the
\* PSG raises its entry by one, from 1 when it had none: so a particle that
\* enters the PSG again starts counting from 1.
C39_NoStaleCounters ==
    /\ [](\A p \in DOMAIN psg_speed_counter :
            p \in Held(grid) /\ psg_speed_counter[p] >= 1)
    /\ [][(/\ (pc = "idle" /\ call'.op = "remove" /\ call'.particle # None) =>
                 /\ call'.particle \notin DOMAIN psg_speed_counter'
                 /\ DOMAIN psg_speed_counter' = DOMAIN psg_speed_counter \ {call'.particle}
                 /\ \A q \in DOMAIN psg_speed_counter' :
                       psg_speed_counter'[q] = psg_speed_counter[q]
           /\ (/\ pc \in {"idle", "gravity"}
               /\ call'.op = "update_particle"
               /\ <<call'.x, call'.y>> \in DOMAIN grid) =>
                 LET p == grid[<<call'.x, call'.y>>]
                 IN /\ IF psg_is_inside(call'.x, call'.y)
                       THEN /\ p \in DOMAIN psg_speed_counter'
                            /\ psg_speed_counter'[p] =
                                  IF p \in DOMAIN psg_speed_counter
                                  THEN psg_speed_counter[p] + 1
                                  ELSE 1
                       ELSE p \notin DOMAIN psg_speed_counter'
                    /\ \A q \in DOMAIN psg_speed_counter \ {p} :
                          /\ q \in DOMAIN psg_speed_counter'
                          /\ psg_speed_counter'[q] = psg_speed_counter[q]
                    /\ DOMAIN psg_speed_counter' \subseteq DOMAIN psg_speed_counter \cup {p})]_vars

\* a single particle that started on the PSG's bottom row: five calls counted
\* it to slow_factor and let it fall out of the PSG with its entry, and the
\* sixth call, which examined it on the row below the PSG, deleted the entry
C39_Witness ==
    /\ pc = "called"
    /\ Len(particles) = 1
    /\ sweeps = slow_factor + 1
    /\ call.op = "update_particle"
    /\ call.y = psg_y + psg_height
    /\ call.ret
    /\ particles[1].y = psg_y + psg_height + 1
    /\ psg_speed_counter = <<>>

====
